---- MODULE Spec2Model ----
(***************************************************************************)
(* A model of the aseprite crate (src/src/lib.rs): the serde data model of *)
(* an Aseprite JSON sprite sheet, the hand-written Color codec, the        *)
(* polymorphic `frames` reader and the derived (de)serializers.            *)
(*                                                                         *)
(* Strings are sequences of characters (one-character TLA+ strings); a     *)
(* Rust `String` is UTF-8, so byte offsets are computed from the width of  *)
(* each character.                                                         *)
(***************************************************************************)
EXTENDS Integers, Sequences, FiniteSets, TLC

VARIABLES
    pc,        \* position of the driver: which call is made next
    colorIn,   \* the Color handed to Serialize (encode flow)
    textIn,    \* the string handed to Color::deserialize (decode flow)
    encoded,   \* result of Color::serialize
    debugText, \* result of <Color as Debug>::fmt
    decoded,   \* outcome of Color::deserialize
    input,     \* what the document is written from: shape, frame pairs, meta
               \* (and, under InitNumber, the slot and the number put in it)
    doc,       \* the JSON document handed to serde_json::from_str
    parsed,    \* outcome of decoding `doc`
    parsedOther, \* outcome of decoding the same frames in the other shape
    saved,     \* the JSON written by serde_json::to_string
    reparsed,  \* outcome of decoding `saved`
    extra,     \* an entry added to one object of `doc`: where, and what
    parsedExtra, \* outcome of decoding `doc` with the entry added
    savedOther \* the JSON written from the value decoded in the other shape

colorVars == <<colorIn, textIn, encoded, debugText, decoded>>

docVars == <<input, doc, parsed, parsedOther, saved, reparsed, extra, parsedExtra, savedOther>>

vars == <<pc, colorVars, docVars>>

----------------------------------------------------------------------------
(* Outcomes of a call: Ok(value), Err(message), or a panic that unwinds.   *)

Ok(v) == [kind |-> "ok", v |-> v]

Err(m) == [kind |-> "err", msg |-> m]

Panic == [kind |-> "panic"]

Pending == [kind |-> "pending"]

IsOk(o) == o.kind = "ok"

IsErr(o) == o.kind = "err"

IsPanic(o) == o.kind = "panic"

----------------------------------------------------------------------------
(* UTF-8 strings                                                           *)

\* Characters that take two bytes in UTF-8 (U+0080..U+07FF) among the ones
\* the model draws from.
TwoByteChars == {"é"}

Utf8Len(ch) == IF ch \in TwoByteChars THEN 2 ELSE 1

RECURSIVE ByteLen(_)
\* str::len(): the length in bytes.
ByteLen(s) == IF s = <<>> THEN 0 ELSE Utf8Len(Head(s)) + ByteLen(Tail(s))

\* Byte offset at which character number k (1-based) starts; k = Len(s)+1
\* gives the offset of the end of the string.
OffsetOf(s, k) == ByteLen(SubSeq(s, 1, k - 1))

\* str::is_char_boundary
IsCharBoundary(s, i) == \E k \in 1..(Len(s) + 1) : OffsetOf(s, k) = i

\* &s[i..j]: panics when j exceeds the length or an index is inside a
\* character; otherwise the characters between the two offsets.
StrSlice(s, i, j) ==
    IF i <= j /\ j <= ByteLen(s) /\ IsCharBoundary(s, i) /\ IsCharBoundary(s, j)
    THEN LET ki == CHOOSE k \in 1..(Len(s) + 1) : OffsetOf(s, k) = i
             kj == CHOOSE k \in 1..(Len(s) + 1) : OffsetOf(s, k) = j
         IN  Ok(SubSeq(s, ki, kj - 1))
    ELSE Panic

\* str::starts_with(char)
StartsWith(s, ch) == s # <<>> /\ Head(s) = ch

----------------------------------------------------------------------------
(* usize arithmetic: `!` on an integer is bitwise complement.              *)

UsizeBits == 64

\* The bits of a length, least significant first (lengths in the model are
\* far below 2^30, so the higher bits are zero).
UsizeToBits(n) == [i \in 0..(UsizeBits - 1) |-> IF i < 30 THEN (n \div (2 ^ i)) % 2 ELSE 0]

UsizeNot(bits) == [i \in 0..(UsizeBits - 1) |-> 1 - bits[i]]

----------------------------------------------------------------------------
(* Hexadecimal digits                                                      *)

LowerHexDigits == <<"0", "1", "2", "3", "4", "5", "6", "7", "8", "9", "a", "b", "c", "d", "e", "f">>

UpperHexDigits == <<"0", "1", "2", "3", "4", "5", "6", "7", "8", "9", "A", "B", "C", "D", "E", "F">>

\* char::to_digit(16): the value of a digit in either case, or -1.
ToDigit(ch) ==
    IF \E i \in 1..16 : LowerHexDigits[i] = ch
    THEN (CHOOSE i \in 1..16 : LowerHexDigits[i] = ch) - 1
    ELSE IF \E i \in 1..16 : UpperHexDigits[i] = ch
         THEN (CHOOSE i \in 1..16 : UpperHexDigits[i] = ch) - 1
         ELSE -1

U8Max == 255

RECURSIVE ParseDigits(_, _)
\* The digit loop of from_str_radix: accumulate base 16, fail on a
\* non-digit or when the value leaves u8.
ParseDigits(digits, acc) ==
    IF digits = <<>> THEN Ok(acc)
    ELSE LET d == ToDigit(Head(digits)) IN
         IF d < 0 THEN Err("InvalidDigit")
         ELSE IF acc * 16 + d > U8Max THEN Err("PosOverflow")
         ELSE ParseDigits(Tail(digits), acc * 16 + d)

\* u8::from_str_radix(src, 16): empty input fails, a lone sign fails, one
\* leading '+' is accepted, '-' is not a sign for an unsigned type.
U8FromStrRadix(src) ==
    IF src = <<>> THEN Err("Empty")
    ELSE IF Head(src) \in {"+", "-"} /\ Tail(src) = <<>> THEN Err("InvalidDigit")
    ELSE IF Head(src) = "+" THEN ParseDigits(Tail(src), 0)
    ELSE ParseDigits(src, 0)

RECURSIVE LowerHex(_)
\* The digits of {:x}: base 16, lowercase, no leading zeros.
LowerHex(n) ==
    IF n < 16 THEN <<LowerHexDigits[n + 1]>>
    ELSE LowerHex(n \div 16) \o <<LowerHexDigits[(n % 16) + 1]>>

RECURSIVE PadZero(_, _)
\* Width-w zero padding of {:0w}.
PadZero(s, w) == IF Len(s) >= w THEN s ELSE PadZero(<<"0">> \o s, w)

\* {:02x}
Fmt02x(n) == PadZero(LowerHex(n), 2)

----------------------------------------------------------------------------
(* Color                                                                   *)

Color(r, g, b, a) == [r |-> r, g |-> g, b |-> b, a |-> a]

\* Variants of the Debug text with a plausible slip: channels written in
\* reverse order, and bytes written without zero padding.
ColorDebug_RevOrder(c) == <<"#">> \o Fmt02x(c.a) \o Fmt02x(c.b) \o Fmt02x(c.g) \o Fmt02x(c.r)

ColorDebug_NoPad(c) == <<"#">> \o LowerHex(c.r) \o LowerHex(c.g) \o LowerHex(c.b) \o LowerHex(c.a)

\* impl Debug for Color
ColorDebug(c) == <<"#">> \o Fmt02x(c.r) \o Fmt02x(c.g) \o Fmt02x(c.b) \o Fmt02x(c.a)

\* impl Serialize for Color: the Debug text, serialized as a string.
ColorSerialize(c) == Ok(ColorDebug(c))

\* One channel of Color::deserialize: slice, parse, map the parse error.
ColorChannel(s, i, j, msg) ==
    LET sl == StrSlice(s, i, j) IN
    IF IsPanic(sl) THEN Panic
    ELSE LET p == U8FromStrRadix(sl.v) IN
         IF IsOk(p) THEN p
         ELSE Err(msg)

\* impl Deserialize for Color, from the string `s`.
ColorDeserialize(s) ==
    IF ~StartsWith(s, "#") THEN Err("color doesn't start with '#'")
    ELSE IF UsizeNot(UsizeToBits(ByteLen(s))) = UsizeToBits(7)
         THEN Err("color has wrong length")
    ELSE LET r == ColorChannel(s, 1, 3, "color has non-hex red component") IN
         IF ~IsOk(r) THEN r
         ELSE LET g == ColorChannel(s, 3, 5, "color has non-hex green component") IN
         IF ~IsOk(g) THEN g
         ELSE LET b == ColorChannel(s, 5, 7, "color has non-hex blue component") IN
         IF ~IsOk(b) THEN b
         ELSE LET a == ColorChannel(s, 7, 9, "color has non-hex alpha component") IN
         IF ~IsOk(a) THEN a
         ELSE Ok(Color(r.v, g.v, b.v, a.v))

----------------------------------------------------------------------------
(* Numbers.  A JSON number is kept as its text; serde_json reads an integer *)
(* into a u64, and a u32 field takes it when it fits.  A u64 is four limbs  *)
(* of 16 bits, least significant first, and a u32 is two: hi and lo.        *)

LimbBase == 65536

DecimalDigits == <<"0", "1", "2", "3", "4", "5", "6", "7", "8", "9">>

IsDecimalDigit(ch) == \E i \in 1..10 : DecimalDigits[i] = ch

DigitValue(ch) == (CHOOSE i \in 1..10 : DecimalDigits[i] = ch) - 1

\* A u32 of the model from a small number.
U32(n) == [hi |-> n \div LimbBase, lo |-> n % LimbBase]

U64Zero == <<0, 0, 0, 0>>

\* significand * 10 + digit in u64, with the overflow that serde_json tests
\* for.
MulAdd10(limbs, digit) ==
    LET t1 == limbs[1] * 10 + digit
        t2 == limbs[2] * 10 + t1 \div LimbBase
        t3 == limbs[3] * 10 + t2 \div LimbBase
        t4 == limbs[4] * 10 + t3 \div LimbBase
    IN  [ limbs |-> <<t1 % LimbBase, t2 % LimbBase, t3 % LimbBase, t4 % LimbBase>>,
          overflow |-> t4 \div LimbBase > 0 ]

RECURSIVE AccumulateU64(_, _)
AccumulateU64(acc, digits) ==
    IF digits = <<>> \/ acc.overflow THEN acc
    ELSE AccumulateU64(MulAdd10(acc.limbs, DigitValue(Head(digits))), Tail(digits))

RECURSIVE DigitsPrefixLen(_)
DigitsPrefixLen(text) ==
    IF text = <<>> \/ ~IsDecimalDigit(Head(text)) THEN 0 ELSE 1 + DigitsPrefixLen(Tail(text))

\* serde_json's parse of a number: digits alone are a PosInt(u64), or with
\* '-' a NegInt(i64); a fraction, an exponent, "-0" and an integer that
\* does not fit are a Float.
ParseNumber(text) ==
    LET negative == text # <<>> /\ Head(text) = "-"
        body == IF negative THEN Tail(text) ELSE text
        n == DigitsPrefixLen(body)
        acc == AccumulateU64([limbs |-> U64Zero, overflow |-> FALSE], SubSeq(body, 1, n))
    IN  IF n < Len(body) \/ acc.overflow THEN [kind |-> "Float"]
        ELSE IF ~negative THEN [kind |-> "PosInt", limbs |-> acc.limbs]
        ELSE IF acc.limbs = U64Zero THEN [kind |-> "Float"]
        ELSE IF acc.limbs[4] < LimbBase \div 2 \/ acc.limbs = <<0, 0, 0, LimbBase \div 2>>
             THEN [kind |-> "NegInt", limbs |-> acc.limbs]
        ELSE [kind |-> "Float"]

RECURSIVE FormatLimbs(_, _)
FormatLimbs(hi, lo) ==
    IF hi = 0 /\ lo < 10 THEN <<DecimalDigits[lo + 1]>>
    ELSE LET t == (hi % 10) * LimbBase + lo
         IN  FormatLimbs(hi \div 10, t \div 10) \o <<DecimalDigits[(t % 10) + 1]>>

\* The decimal text serde_json writes for a u32.
FormatU32(v) == FormatLimbs(v.hi, v.lo)

----------------------------------------------------------------------------
(* JSON value trees, as serde_json hands them to the visitors.  An object  *)
(* is the sequence of its <<key, value>> entries in document order.        *)

JNull == [t |-> "null"]

JBool(b) == [t |-> "bool", b |-> b]

\* A number, as its text.
JNumber(text) == [t |-> "num", text |-> text]

\* The number a small integer is written as.
JNum(n) == JNumber(FormatU32(U32(n)))

JStr(s) == [t |-> "str", s |-> s]

JArr(xs) == [t |-> "arr", xs |-> xs]

JObj(es) == [t |-> "obj", es |-> es]

\* Option<T>
None == [some |-> FALSE]

Some(v) == [some |-> TRUE, v |-> v]

Range(f) == { f[i] : i \in DOMAIN f }

Min(S) == CHOOSE x \in S : \A y \in S : x <= y

\* The sequence with elements f[1..n], each computed once.
Collect(f, n) == SubSeq(f, 1, n)

----------------------------------------------------------------------------
(* serde_derive's rename rules (rename_all)                                *)

LowerLetters == <<"a", "b", "c", "d", "e", "f", "g", "h", "i", "j", "k", "l", "m", "n", "o", "p", "q", "r", "s", "t", "u", "v", "w", "x", "y", "z">>

UpperLetters == <<"A", "B", "C", "D", "E", "F", "G", "H", "I", "J", "K", "L", "M", "N", "O", "P", "Q", "R", "S", "T", "U", "V", "W", "X", "Y", "Z">>

IsUpperCase(ch) == \E i \in 1..26 : UpperLetters[i] = ch

IsLowerCase(ch) == \E i \in 1..26 : LowerLetters[i] = ch

ToAsciiLowercase(ch) ==
    IF IsUpperCase(ch) THEN LowerLetters[CHOOSE i \in 1..26 : UpperLetters[i] = ch] ELSE ch

ToAsciiUppercase(ch) ==
    IF IsLowerCase(ch) THEN UpperLetters[CHOOSE i \in 1..26 : LowerLetters[i] = ch] ELSE ch

RECURSIVE PascalCaseField(_, _)
\* RenameRule::PascalCase on a snake_case field: drop each '_' and
\* capitalise the character after it, and the first one.
PascalCaseField(ident, capitalize) ==
    IF ident = <<>> THEN <<>>
    ELSE IF Head(ident) = "_" THEN PascalCaseField(Tail(ident), TRUE)
    ELSE IF capitalize THEN <<ToAsciiUppercase(Head(ident))>> \o PascalCaseField(Tail(ident), FALSE)
    ELSE <<Head(ident)>> \o PascalCaseField(Tail(ident), FALSE)

\* RenameRule::CamelCase on a field: PascalCase with the first character
\* lowercased.
CamelCaseField(ident) ==
    LET pascal == PascalCaseField(ident, TRUE)
    IN  IF pascal = <<>> THEN <<>> ELSE <<ToAsciiLowercase(Head(pascal))>> \o Tail(pascal)

RECURSIVE SnakeCaseTail(_)
SnakeCaseTail(rest) ==
    IF rest = <<>> THEN <<>>
    ELSE (IF IsUpperCase(Head(rest)) THEN <<"_">> ELSE <<>>)
            \o <<ToAsciiLowercase(Head(rest))>> \o SnakeCaseTail(Tail(rest))

\* RenameRule::SnakeCase on a variant: lowercase, with '_' before every
\* uppercase character but the first.
SnakeCaseVariant(variant) ==
    IF variant = <<>> THEN <<>>
    ELSE <<ToAsciiLowercase(Head(variant))>> \o SnakeCaseTail(Tail(variant))

\* RenameRule::CamelCase on a variant: the first character lowercased.
CamelCaseVariant(variant) ==
    IF variant = <<>> THEN <<>> ELSE <<ToAsciiLowercase(Head(variant))>> \o Tail(variant)

\* The JSON key of a field under the container's rename_all.
RenameField(rule, ident) == IF rule = "camelCase" THEN CamelCaseField(ident) ELSE ident

\* Every rule read as camelCase.
RenameVariant_CamelCase(rule, variant) == CamelCaseVariant(variant)

\* The JSON name of a variant under the container's rename_all.
RenameVariant(rule, variant) ==
    IF rule = "camelCase" THEN CamelCaseVariant(variant)
    ELSE IF rule = "snake_case" THEN SnakeCaseVariant(variant)
    ELSE variant

----------------------------------------------------------------------------
(* Types of the data model, as the field tables name them.                 *)

TString == [k |-> "String"]

TBool == [k |-> "bool"]

TU32 == [k |-> "u32"]

TOption(of) == [k |-> "Option", of |-> of]

TVec(of) == [k |-> "Vec", of |-> of]

\* A type of lib.rs, by name.
TNamed(name) == [k |-> name]

\* #[serde(deserialize_with = "deserialize_frames")] on Vec<Frame>
TFrames == [k |-> "deserialize_frames"]

\* A field: its Rust name, the characters of that name, its type, and how
\* a missing key is treated: "required", "option" (Option<T>: None) or
\* "default" (#[serde(default)]).
Field(name, ident, ty, kind) == [name |-> name, ident |-> ident, ty |-> ty, kind |-> kind]

Variant(name, ident) == [name |-> name, ident |-> ident]

FieldNames(fields) == { fields[k].name : k \in 1..Len(fields) }

\* struct Rect (no rename_all)
RectFields ==
    << Field("x", <<"x">>, TU32, "required"), Field("y", <<"y">>, TU32, "required"),
       Field("w", <<"w">>, TU32, "required"), Field("h", <<"h">>, TU32, "required") >>

\* struct Point
PointFields == << Field("x", <<"x">>, TU32, "required"), Field("y", <<"y">>, TU32, "required") >>

\* struct Dimensions
DimensionsFields == << Field("w", <<"w">>, TU32, "required"), Field("h", <<"h">>, TU32, "required") >>

\* struct Frame: `filename`, and `data` flattened into the same object.
FilenameKey == <<"f", "i", "l", "e", "n", "a", "m", "e">>

\* struct FrameData, rename_all = "camelCase"
FrameDataFields ==
    << Field("frame", <<"f", "r", "a", "m", "e">>, TNamed("Rect"), "required"),
       Field("rotated", <<"r", "o", "t", "a", "t", "e", "d">>, TBool, "required"),
       Field("trimmed", <<"t", "r", "i", "m", "m", "e", "d">>, TBool, "required"),
       Field("sprite_source_size", <<"s", "p", "r", "i", "t", "e", "_", "s", "o", "u", "r", "c", "e", "_", "s", "i", "z", "e">>, TNamed("Rect"), "required"),
       Field("source_size", <<"s", "o", "u", "r", "c", "e", "_", "s", "i", "z", "e">>, TNamed("Dimensions"), "required"),
       Field("duration", <<"d", "u", "r", "a", "t", "i", "o", "n">>, TU32, "required") >>

\* enum Direction, rename_all = "camelCase"
DirectionVariants ==
    << Variant("Forward", <<"F", "o", "r", "w", "a", "r", "d">>), Variant("Reverse", <<"R", "e", "v", "e", "r", "s", "e">>),
       Variant("Pingpong", <<"P", "i", "n", "g", "p", "o", "n", "g">>) >>

\* struct Frametag, rename_all = "camelCase"
FrametagFields ==
    << Field("name", <<"n", "a", "m", "e">>, TString, "required"),
       Field("from", <<"f", "r", "o", "m">>, TU32, "required"),
       Field("to", <<"t", "o">>, TU32, "required"),
       Field("direction", <<"d", "i", "r", "e", "c", "t", "i", "o", "n">>, TNamed("Direction"), "required") >>

\* enum BlendMode, rename_all = "snake_case"
BlendModeVariants ==
    << Variant("Normal", <<"N", "o", "r", "m", "a", "l">>), Variant("Multiply", <<"M", "u", "l", "t", "i", "p", "l", "y">>),
       Variant("Screen", <<"S", "c", "r", "e", "e", "n">>), Variant("Overlay", <<"O", "v", "e", "r", "l", "a", "y">>),
       Variant("Darken", <<"D", "a", "r", "k", "e", "n">>), Variant("Lighten", <<"L", "i", "g", "h", "t", "e", "n">>),
       Variant("ColorDodge", <<"C", "o", "l", "o", "r", "D", "o", "d", "g", "e">>), Variant("ColorBurn", <<"C", "o", "l", "o", "r", "B", "u", "r", "n">>),
       Variant("HardLight", <<"H", "a", "r", "d", "L", "i", "g", "h", "t">>), Variant("SoftLight", <<"S", "o", "f", "t", "L", "i", "g", "h", "t">>),
       Variant("Difference", <<"D", "i", "f", "f", "e", "r", "e", "n", "c", "e">>), Variant("Exclusion", <<"E", "x", "c", "l", "u", "s", "i", "o", "n">>),
       Variant("HslHue", <<"H", "s", "l", "H", "u", "e">>), Variant("HslSaturation", <<"H", "s", "l", "S", "a", "t", "u", "r", "a", "t", "i", "o", "n">>),
       Variant("HslColor", <<"H", "s", "l", "C", "o", "l", "o", "r">>), Variant("HslLuminosity", <<"H", "s", "l", "L", "u", "m", "i", "n", "o", "s", "i", "t", "y">>),
       Variant("Addition", <<"A", "d", "d", "i", "t", "i", "o", "n">>), Variant("Subtract", <<"S", "u", "b", "t", "r", "a", "c", "t">>),
       Variant("Divide", <<"D", "i", "v", "i", "d", "e">>) >>

\* Layer with opacity and blend_mode as plain fields: both keys must be
\* there.
LayerFields_BothRequired ==
    << Field("name", <<"n", "a", "m", "e">>, TString, "required"),
       Field("group", <<"g", "r", "o", "u", "p">>, TOption(TString), "option"),
       Field("opacity", <<"o", "p", "a", "c", "i", "t", "y">>, TOption(TU32), "required"),
       Field("blend_mode", <<"b", "l", "e", "n", "d", "_", "m", "o", "d", "e">>, TOption(TNamed("BlendMode")), "required"),
       Field("color", <<"c", "o", "l", "o", "r">>, TOption(TNamed("Color")), "option"),
       Field("data", <<"d", "a", "t", "a">>, TOption(TString), "option") >>

\* struct Layer, rename_all = "camelCase"
LayerFields ==
    << Field("name", <<"n", "a", "m", "e">>, TString, "required"),
       Field("group", <<"g", "r", "o", "u", "p">>, TOption(TString), "option"),
       Field("opacity", <<"o", "p", "a", "c", "i", "t", "y">>, TOption(TU32), "option"),
       Field("blend_mode", <<"b", "l", "e", "n", "d", "_", "m", "o", "d", "e">>, TOption(TNamed("BlendMode")), "option"),
       Field("color", <<"c", "o", "l", "o", "r">>, TOption(TNamed("Color")), "option"),
       Field("data", <<"d", "a", "t", "a">>, TOption(TString), "option") >>

\* struct Slice, rename_all = "camelCase"
SliceFields ==
    << Field("name", <<"n", "a", "m", "e">>, TString, "required"),
       Field("color", <<"c", "o", "l", "o", "r">>, TNamed("Color"), "required"),
       Field("keys", <<"k", "e", "y", "s">>, TVec(TNamed("SliceKey")), "required"),
       Field("data", <<"d", "a", "t", "a">>, TOption(TString), "option") >>

\* struct SliceKey, rename_all = "camelCase"
SliceKeyFields ==
    << Field("frame", <<"f", "r", "a", "m", "e">>, TU32, "required"),
       Field("bounds", <<"b", "o", "u", "n", "d", "s">>, TNamed("Rect"), "required"),
       Field("pivot", <<"p", "i", "v", "o", "t">>, TOption(TNamed("Point")), "option"),
       Field("center", <<"c", "e", "n", "t", "e", "r">>, TOption(TNamed("Rect")), "option") >>

\* The table without the #[serde(default)] attributes.
MetadataFields_NoDefault ==
    << Field("app", <<"a", "p", "p">>, TString, "required"),
       Field("version", <<"v", "e", "r", "s", "i", "o", "n">>, TString, "required"),
       Field("format", <<"f", "o", "r", "m", "a", "t">>, TString, "required"),
       Field("size", <<"s", "i", "z", "e">>, TNamed("Dimensions"), "required"),
       Field("scale", <<"s", "c", "a", "l", "e">>, TString, "required"),
       Field("image", <<"i", "m", "a", "g", "e">>, TOption(TString), "option"),
       Field("frame_tags", <<"f", "r", "a", "m", "e", "_", "t", "a", "g", "s">>, TVec(TNamed("Frametag")), "required"),
       Field("layers", <<"l", "a", "y", "e", "r", "s">>, TVec(TNamed("Layer")), "required"),
       Field("slices", <<"s", "l", "i", "c", "e", "s">>, TVec(TNamed("Slice")), "required") >>

\* struct Metadata, rename_all = "camelCase"; the three lists carry
\* #[serde(default)].
MetadataFields ==
    << Field("app", <<"a", "p", "p">>, TString, "required"),
       Field("version", <<"v", "e", "r", "s", "i", "o", "n">>, TString, "required"),
       Field("format", <<"f", "o", "r", "m", "a", "t">>, TString, "required"),
       Field("size", <<"s", "i", "z", "e">>, TNamed("Dimensions"), "required"),
       Field("scale", <<"s", "c", "a", "l", "e">>, TString, "required"),
       Field("image", <<"i", "m", "a", "g", "e">>, TOption(TString), "option"),
       Field("frame_tags", <<"f", "r", "a", "m", "e", "_", "t", "a", "g", "s">>, TVec(TNamed("Frametag")), "default"),
       Field("layers", <<"l", "a", "y", "e", "r", "s">>, TVec(TNamed("Layer")), "default"),
       Field("slices", <<"s", "l", "i", "c", "e", "s">>, TVec(TNamed("Slice")), "default") >>

\* struct SpritesheetData, rename_all = "camelCase"; `frames` is read by
\* deserialize_frames.
SpritesheetDataFields ==
    << Field("frames", <<"f", "r", "a", "m", "e", "s">>, TFrames, "required"),
       Field("meta", <<"m", "e", "t", "a">>, TNamed("Metadata"), "required") >>

StructNames ==
    { "Rect", "Point", "Dimensions", "FrameData", "Frametag", "Layer", "Slice", "SliceKey",
      "Metadata", "SpritesheetData" }

\* The fields of a struct, in declaration order.
FieldsOf(name) ==
    CASE name = "Rect" -> RectFields
      [] name = "Point" -> PointFields
      [] name = "Dimensions" -> DimensionsFields
      [] name = "FrameData" -> FrameDataFields
      [] name = "Frametag" -> FrametagFields
      [] name = "Layer" -> LayerFields
      [] name = "Slice" -> SliceFields
      [] name = "SliceKey" -> SliceKeyFields
      [] name = "Metadata" -> MetadataFields
      [] name = "SpritesheetData" -> SpritesheetDataFields

\* The rename_all attribute of a struct or enum.
RenameAllOf(name) ==
    IF name \in {"Rect", "Point", "Dimensions", "Frame"} THEN "none"
    ELSE IF name = "BlendMode" THEN "snake_case"
    ELSE "camelCase"

EnumNames == { "Direction", "BlendMode" }

VariantsOf(name) == IF name = "Direction" THEN DirectionVariants ELSE BlendModeVariants

----------------------------------------------------------------------------
(* Deserialize (serde, serde_json, derive)                                 *)

RECURSIVE DeserializeAs(_, _)

DeserializeString(j) == IF j.t = "str" THEN Ok(j.s) ELSE Err("invalid type")

DeserializeBool(j) == IF j.t = "bool" THEN Ok(j.b) ELSE Err("invalid type")

\* u32 read with `as`: the low 32 bits of the u64.
DeserializeU32_Wrapping(j) ==
    IF j.t # "num" THEN Err("invalid type")
    ELSE LET number == ParseNumber(j.text)
         IN  IF number.kind = "Float" THEN Err("invalid type")
             ELSE IF number.kind = "NegInt" THEN Err("invalid value")
             ELSE Ok([hi |-> number.limbs[2], lo |-> number.limbs[1]])

\* u32 from a JSON number: visit_u64 takes a value up to u32::MAX, visit_i64
\* a value from 0, and there is no visit_f64.
DeserializeU32(j) ==
    IF j.t # "num" THEN Err("invalid type")
    ELSE LET number == ParseNumber(j.text)
         IN  IF number.kind = "Float" THEN Err("invalid type")
             ELSE IF number.kind = "NegInt" THEN Err("invalid value")
             ELSE IF number.limbs[3] # 0 \/ number.limbs[4] # 0 THEN Err("invalid value")
             ELSE Ok([hi |-> number.limbs[2], lo |-> number.limbs[1]])

\* Option<T>: null is None, anything else is T.
DeserializeOption(of, j) ==
    IF j.t = "null" THEN Ok(None)
    ELSE LET d == DeserializeAs(of, j) IN IF IsOk(d) THEN Ok(Some(d.v)) ELSE d

\* Vec<T>: the elements of an array in order; the first failure ends it.
DeserializeVec(of, j) ==
    IF j.t # "arr" THEN Err("invalid type")
    ELSE LET outs == Collect([i \in 1..Len(j.xs) |-> DeserializeAs(of, j.xs[i])], Len(j.xs))
             bad == { i \in 1..Len(j.xs) : ~IsOk(outs[i]) }
         IN  IF bad # {} THEN outs[Min(bad)]
             ELSE Ok([i \in 1..Len(j.xs) |-> outs[i].v])

\* Color as a field: the JSON string handed to Color::deserialize.
DeserializeColorValue(j) ==
    LET s == DeserializeString(j) IN IF IsOk(s) THEN ColorDeserialize(s.v) ELSE s

\* What a field without a key gets when it has #[serde(default)]:
\* Vec::default().
DefaultOf(ty) == <<>>

\* visit_map as #[serde(deny_unknown_fields)] would make it: an unknown key
\* is an error.
VisitStructMap_DenyUnknown(es, fields, rule) ==
    LET n == Len(es)
        keys == Collect([k \in 1..Len(fields) |-> RenameField(rule, fields[k].ident)], Len(fields))
        Known(i) == \E k \in 1..Len(fields) : keys[k] = es[i][1]
        FieldAt(i) == CHOOSE k \in 1..Len(fields) : keys[k] = es[i][1]
        IsDup(i) == \E h \in 1..(i - 1) : es[h][1] = es[i][1]
        outs == Collect([i \in 1..n |->
                            IF ~Known(i) THEN Err("unknown field")
                            ELSE IF IsDup(i) THEN Err("duplicate field")
                            ELSE DeserializeAs(fields[FieldAt(i)].ty, es[i][2])], n)
        bad == { i \in 1..n : ~IsOk(outs[i]) }
        Seen(k) == \E i \in 1..n : es[i][1] = keys[k]
        missing == { k \in 1..Len(fields) : ~Seen(k) /\ fields[k].kind = "required" }
        ValueOf(k) ==
            IF Seen(k) THEN outs[CHOOSE i \in 1..n : es[i][1] = keys[k]].v
            ELSE IF fields[k].kind = "option" THEN None
            ELSE DefaultOf(fields[k].ty)
    IN  IF bad # {} THEN outs[Min(bad)]
        ELSE IF missing # {} THEN Err("missing field")
        ELSE Ok([name \in FieldNames(fields) |->
                    ValueOf(CHOOSE k \in 1..Len(fields) : fields[k].name = name)])

\* derive(Deserialize), visit_map: entries in document order; an unknown
\* key is skipped, a second occurrence of a known key is an error, a value
\* that fails to decode ends the visit; then every field not seen is
\* filled in or reported missing, in declaration order.
VisitStructMap(es, fields, rule) ==
    LET n == Len(es)
        keys == Collect([k \in 1..Len(fields) |-> RenameField(rule, fields[k].ident)], Len(fields))
        Known(i) == \E k \in 1..Len(fields) : keys[k] = es[i][1]
        FieldAt(i) == CHOOSE k \in 1..Len(fields) : keys[k] = es[i][1]
        IsDup(i) == \E h \in 1..(i - 1) : es[h][1] = es[i][1]
        outs == Collect([i \in 1..n |->
                            IF ~Known(i) THEN Ok(None)
                            ELSE IF IsDup(i) THEN Err("duplicate field")
                            ELSE DeserializeAs(fields[FieldAt(i)].ty, es[i][2])], n)
        bad == { i \in 1..n : ~IsOk(outs[i]) }
        Seen(k) == \E i \in 1..n : es[i][1] = keys[k]
        missing == { k \in 1..Len(fields) : ~Seen(k) /\ fields[k].kind = "required" }
        ValueOf(k) ==
            IF Seen(k) THEN outs[CHOOSE i \in 1..n : es[i][1] = keys[k]].v
            ELSE IF fields[k].kind = "option" THEN None
            ELSE DefaultOf(fields[k].ty)
    IN  IF bad # {} THEN outs[Min(bad)]
        ELSE IF missing # {} THEN Err("missing field")
        ELSE Ok([name \in FieldNames(fields) |->
                    ValueOf(CHOOSE k \in 1..Len(fields) : fields[k].name = name)])

\* derive(Deserialize), visit_seq: the fields positionally; a missing
\* element is an error unless the field has #[serde(default)]; elements
\* left over are an error.
VisitStructSeq(xs, fields) ==
    LET n == Len(fields)
        outs == Collect([k \in 1..n |->
                            IF k <= Len(xs) THEN DeserializeAs(fields[k].ty, xs[k])
                            ELSE IF fields[k].kind = "default" THEN Ok(DefaultOf(fields[k].ty))
                            ELSE Err("invalid length")], n)
        bad == { k \in 1..n : ~IsOk(outs[k]) }
    IN  IF bad # {} THEN outs[Min(bad)]
        ELSE IF Len(xs) > n THEN Err("invalid length")
        ELSE Ok([name \in FieldNames(fields) |->
                    outs[CHOOSE k \in 1..n : fields[k].name = name].v])

\* deserialize_struct: an object goes to visit_map, an array to visit_seq.
DeserializeStruct(name, j) ==
    IF j.t = "obj" THEN VisitStructMap(j.es, FieldsOf(name), RenameAllOf(name))
    ELSE IF j.t = "arr" THEN VisitStructSeq(j.xs, FieldsOf(name))
    ELSE Err("invalid type")

\* derive(Deserialize) for an enum of unit variants: the variant's renamed
\* name as a string, or an object with that single key and a null value.
DeserializeUnitEnum(name, j) ==
    LET variants == VariantsOf(name)
        names == Collect([k \in 1..Len(variants) |->
                            RenameVariant(RenameAllOf(name), variants[k].ident)], Len(variants))
        Named(s) == \E k \in 1..Len(variants) : names[k] = s
        VariantNamed(s) == variants[CHOOSE k \in 1..Len(variants) : names[k] = s].name
    IN  IF j.t = "str"
        THEN IF Named(j.s) THEN Ok(VariantNamed(j.s)) ELSE Err("unknown variant")
        ELSE IF j.t = "obj"
        THEN IF Len(j.es) = 0 THEN Err("invalid value")
             ELSE IF ~Named(j.es[1][1]) THEN Err("unknown variant")
             ELSE IF j.es[1][2].t # "null" THEN Err("invalid type")
             ELSE IF Len(j.es) > 1 THEN Err("invalid value")
             ELSE Ok(VariantNamed(j.es[1][1]))
        ELSE Err("invalid type")

DeserializeFrameData(j) == DeserializeStruct("FrameData", j)

\* derive(Deserialize) with #[serde(flatten)]: only an object is accepted;
\* `filename` is read in place and every other entry is kept for
\* FrameData, which reads the kept entries as a map.
DeserializeFrame(j) ==
    IF j.t # "obj" THEN Err("invalid type")
    ELSE LET es == j.es
             own == { i \in 1..Len(es) : es[i][1] = FilenameKey }
             OwnOut(i) == IF i = Min(own) THEN DeserializeString(es[i][2])
                          ELSE Err("duplicate field")
             bad == { i \in own : ~IsOk(OwnOut(i)) }
             rest == SelectSeq(es, LAMBDA e : e[1] # FilenameKey)
         IN  IF bad # {} THEN OwnOut(Min(bad))
             ELSE IF own = {} THEN Err("missing field")
             ELSE LET data == VisitStructMap(rest, FrameDataFields, RenameAllOf("FrameData"))
                  IN  IF IsOk(data)
                      THEN Ok([filename |-> es[Min(own)][2].s, data |-> data.v])
                      ELSE data

\* visit_map with `if let` for `while let`: only the first entry is read.
FramesVisitMap_IfLet(es) ==
    IF es = <<>> THEN Ok(<<>>)
    ELSE LET d == DeserializeFrameData(es[1][2])
         IN  IF IsOk(d) THEN Ok(<< [filename |-> es[1][1], data |-> d.v] >>) ELSE d

\* visit_map with frames.insert(0, ..) for frames.push(..): the entries
\* come out in reverse.
FramesVisitMap_Reversed(es) ==
    LET outs == Collect([i \in 1..Len(es) |-> DeserializeFrameData(es[i][2])], Len(es))
        bad == { i \in 1..Len(es) : ~IsOk(outs[i]) }
    IN  IF bad # {} THEN outs[Min(bad)]
        ELSE Ok([i \in 1..Len(es) |->
                    [filename |-> es[Len(es) + 1 - i][1], data |-> outs[Len(es) + 1 - i].v]])

\* FramesVisitor::visit_map: one Frame per entry, the key as filename.
FramesVisitMap(es) ==
    LET outs == Collect([i \in 1..Len(es) |-> DeserializeFrameData(es[i][2])], Len(es))
        bad == { i \in 1..Len(es) : ~IsOk(outs[i]) }
    IN  IF bad # {} THEN outs[Min(bad)]
        ELSE Ok([i \in 1..Len(es) |-> [filename |-> es[i][1], data |-> outs[i].v]])

\* FramesVisitor::visit_seq: one Frame per element.
FramesVisitSeq(xs) ==
    LET outs == Collect([i \in 1..Len(xs) |-> DeserializeFrame(xs[i])], Len(xs))
        bad == { i \in 1..Len(xs) : ~IsOk(outs[i]) }
    IN  IF bad # {} THEN outs[Min(bad)]
        ELSE Ok([i \in 1..Len(xs) |-> outs[i].v])

\* deserialize_frames with a visit_unit that gives no frames.
deserialize_frames_NullAsEmpty(j) ==
    IF j.t = "obj" THEN FramesVisitMap(j.es)
    ELSE IF j.t = "arr" THEN FramesVisitSeq(j.xs)
    ELSE IF j.t = "null" THEN Ok(<<>>)
    ELSE Err("invalid type")

\* deserialize_frames: deserialize_any dispatches on the JSON value.
deserialize_frames(j) ==
    IF j.t = "obj" THEN FramesVisitMap(j.es)
    ELSE IF j.t = "arr" THEN FramesVisitSeq(j.xs)
    ELSE Err("invalid type")

\* T::deserialize for a type of the tables.
DeserializeAs(ty, j) ==
    CASE ty.k = "String" -> DeserializeString(j)
      [] ty.k = "bool" -> DeserializeBool(j)
      [] ty.k = "u32" -> DeserializeU32(j)
      [] ty.k = "Option" -> DeserializeOption(ty.of, j)
      [] ty.k = "Vec" -> DeserializeVec(ty.of, j)
      [] ty.k = "Color" -> DeserializeColorValue(j)
      [] ty.k = "deserialize_frames" -> deserialize_frames(j)
      [] ty.k \in EnumNames -> DeserializeUnitEnum(ty.k, j)
      [] ty.k \in StructNames -> DeserializeStruct(ty.k, j)

DeserializeMetadata(j) == DeserializeAs(TNamed("Metadata"), j)

\* serde_json::from_str::<SpritesheetData>
DeserializeSpritesheetData(j) == DeserializeAs(TNamed("SpritesheetData"), j)

----------------------------------------------------------------------------
(* Serialize (serde, serde_json, derive)                                   *)

RECURSIVE SerializeAs(_, _)

SerializeOption(of, o) == IF o.some THEN SerializeAs(of, o.v) ELSE JNull

SerializeVec(of, xs) == JArr([i \in 1..Len(xs) |-> SerializeAs(of, xs[i])])

SerializeColorValue(c) == JStr(ColorSerialize(c).v)

\* derive(Serialize) for a struct: every field in declaration order under
\* its renamed key.
SerializeStruct(name, v) ==
    LET fields == FieldsOf(name)
    IN  JObj([k \in 1..Len(fields) |->
                <<RenameField(RenameAllOf(name), fields[k].ident),
                  SerializeAs(fields[k].ty, v[fields[k].name])>>])

\* derive(Serialize) for an enum of unit variants: the renamed name.
SerializeUnitEnum(name, v) ==
    LET variants == VariantsOf(name)
    IN  JStr(RenameVariant(RenameAllOf(name),
                           variants[CHOOSE k \in 1..Len(variants) : variants[k].name = v].ident))

\* Serialize without the flatten attribute: `data` as a nested object.
SerializeFrame_NoFlatten(f) ==
    JObj(<< <<FilenameKey, JStr(f.filename)>>,
            <<<<"d", "a", "t", "a">>, SerializeStruct("FrameData", f.data)>> >>)

\* derive(Serialize) with flatten: one object, `filename` first, then the
\* fields of FrameData.
SerializeFrame(f) ==
    JObj(<< <<FilenameKey, JStr(f.filename)>> >> \o SerializeStruct("FrameData", f.data).es)

\* `frames` written back as an object keyed by filename.
SerializeFrames_AsMap(frames) ==
    JObj([i \in 1..Len(frames) |-> <<frames[i].filename, SerializeStruct("FrameData", frames[i].data)>>])

\* Vec<Frame>: Serialize
SerializeFrames(frames) == JArr([i \in 1..Len(frames) |-> SerializeFrame(frames[i])])

\* T::serialize for a type of the tables.
SerializeAs(ty, v) ==
    CASE ty.k = "String" -> JStr(v)
      [] ty.k = "bool" -> JBool(v)
      [] ty.k = "u32" -> JNumber(FormatU32(v))
      [] ty.k = "Option" -> SerializeOption(ty.of, v)
      [] ty.k = "Vec" -> SerializeVec(ty.of, v)
      [] ty.k = "Color" -> SerializeColorValue(v)
      [] ty.k = "deserialize_frames" -> SerializeFrames(v)
      [] ty.k \in EnumNames -> SerializeUnitEnum(ty.k, v)
      [] ty.k \in StructNames -> SerializeStruct(ty.k, v)

\* serde_json::to_string(&SpritesheetData)
SerializeSpritesheetData(d) == SerializeAs(TNamed("SpritesheetData"), d)

----------------------------------------------------------------------------
(* Inputs of the Color codec                                               *)

\* Longest input: '#' followed by this many pieces.
MaxPieces == 5

\* Pieces a color text is put together from: a lowercase pair, a pair with
\* a leading zero, an uppercase pair, a signed digit, a non-hex pair, a
\* two-byte character and a single digit.
Pieces ==
    { <<"6", "a">>, <<"0", "f">>, <<"F", "F">>, <<"+", "f">>, <<"z", "z">>,
      <<"é">>, <<"5">> }

\* Pieces of the texts that carry no '#'.
BarePieces == { <<"6", "a">>, <<"é">> }

RECURSIVE Concat(_)
Concat(ps) == IF ps = <<>> THEN <<>> ELSE Head(ps) \o Concat(Tail(ps))

PieceSeqs(P, n) == UNION { [1..k -> P] : k \in 0..n }

TextInputs ==
    { <<"#">> \o Concat(ps) : ps \in PieceSeqs(Pieces, MaxPieces) }
        \cup { Concat(ps) : ps \in PieceSeqs(BarePieces, MaxPieces) }

Bytes == 0..U8Max

SampleBytes == {0, 10, 106, 255}

\* Every combination of a few bytes, and every byte in every channel.
ColorInputs ==
    { Color(r, g, b, a) : r \in SampleBytes, g \in SampleBytes, b \in SampleBytes, a \in SampleBytes }
        \cup { Color(x, 205, 91, 255) : x \in Bytes }
        \cup { Color(106, x, 91, 255) : x \in Bytes }
        \cup { Color(106, 205, x, 255) : x \in Bytes }
        \cup { Color(106, 205, 91, x) : x \in Bytes }

NoColor == Color(0, 0, 0, 0)

----------------------------------------------------------------------------
(* Input documents                                                         *)

MaxFrames == 2

MaxTags == 2

MaxLayers == 2

MaxSlices == 2

SeqsUpTo(S, n) == UNION { [1..k -> S] : k \in 0..n }

RectJson(x, y, w, h) ==
    JObj(<< <<<<"x">>, JNum(x)>>, <<<<"y">>, JNum(y)>>, <<<<"w">>, JNum(w)>>, <<<<"h">>, JNum(h)>> >>)

DimensionsJson(w, h) == JObj(<< <<<<"w">>, JNum(w)>>, <<<<"h">>, JNum(h)>> >>)

\* The entries of a frame object besides `filename`, as Aseprite writes
\* them.
FrameEntries(x, trimmed, duration) ==
    << <<<<"f", "r", "a", "m", "e">>, RectJson(x, 1, 18, 18)>>,
       <<<<"r", "o", "t", "a", "t", "e", "d">>, JBool(FALSE)>>,
       <<<<"t", "r", "i", "m", "m", "e", "d">>, JBool(trimmed)>>,
       <<<<"s", "p", "r", "i", "t", "e", "S", "o", "u", "r", "c", "e", "S", "i", "z", "e">>, RectJson(0, 0, 16, 16)>>,
       <<<<"s", "o", "u", "r", "c", "e", "S", "i", "z", "e">>, DimensionsJson(16, 16)>>,
       <<<<"d", "u", "r", "a", "t", "i", "o", "n">>, JNum(duration)>> >>

\* The same fields in another order, with a key this crate does not know
\* and sourceSize written as an array.
FrameEntriesReordered ==
    << <<<<"d", "u", "r", "a", "t", "i", "o", "n">>, JNum(100)>>,
       <<<<"s", "o", "u", "r", "c", "e", "S", "i", "z", "e">>, JArr(<<JNum(8), JNum(8)>>)>>,
       <<<<"l", "a", "y", "e", "r">>, JStr(<<"b", "g">>)>>,
       <<<<"s", "p", "r", "i", "t", "e", "S", "o", "u", "r", "c", "e", "S", "i", "z", "e">>, RectJson(2, 2, 4, 4)>>,
       <<<<"t", "r", "i", "m", "m", "e", "d">>, JBool(TRUE)>>,
       <<<<"r", "o", "t", "a", "t", "e", "d">>, JBool(TRUE)>>,
       <<<<"f", "r", "a", "m", "e">>, RectJson(40, 0, 4, 4)>> >>

\* A frame with no duration: it does not decode.
FrameEntriesNoDuration == SubSeq(FrameEntries(1, FALSE, 250), 1, 5)

ValidFrameEntries == { FrameEntries(1, FALSE, 250), FrameEntries(20, TRUE, 100), FrameEntriesReordered }

FrameEntriesInputs == ValidFrameEntries \cup { FrameEntriesNoDuration }

Filenames == { <<"a", ".", "a", "s", "e">>, <<"b", ".", "a", "s", "e">> }

\* Lists of (filename, frame entries) pairs.
PairsInputs == SeqsUpTo(Filenames \X FrameEntriesInputs, MaxFrames)

\* `frames` written as an array of frame objects (--format json-array).
FramesAsArray(pairs) ==
    JArr([i \in 1..Len(pairs) |->
            JObj(<< <<<<"f", "i", "l", "e", "n", "a", "m", "e">>, JStr(pairs[i][1])>> >> \o pairs[i][2])])

\* `frames` written as an object keyed by filename (--format json-hash).
FramesAsMap(pairs) == JObj([i \in 1..Len(pairs) |-> <<pairs[i][1], JObj(pairs[i][2])>>])

\* The shapes of `frames` that are neither an array nor an object.
ScalarShapes == { "null", "false", "true", "number", "string" }

FramesAsScalar(shape) ==
    CASE shape = "null" -> JNull
      [] shape = "false" -> JBool(FALSE)
      [] shape = "true" -> JBool(TRUE)
      [] shape = "number" -> JNum(0)
      [] shape = "string" -> JStr(<<"a", ".", "a", "s", "e">>)

FramesJson(shape, pairs) ==
    IF shape = "array" THEN FramesAsArray(pairs)
    ELSE IF shape = "map" THEN FramesAsMap(pairs)
    ELSE FramesAsScalar(shape)

OtherShape(shape) ==
    IF shape = "array" THEN "map" ELSE IF shape = "map" THEN "array" ELSE shape

TagJson(name, from, to, direction) ==
    JObj(<< <<<<"n", "a", "m", "e">>, JStr(name)>>, <<<<"f", "r", "o", "m">>, JNum(from)>>, <<<<"t", "o">>, JNum(to)>>,
            <<<<"d", "i", "r", "e", "c", "t", "i", "o", "n">>, JStr(direction)>> >>)

TagInputs ==
    { TagJson(<<"w", "a", "l", "k">>, 0, 1, <<"f", "o", "r", "w", "a", "r", "d">>), TagJson(<<"i", "d", "l", "e">>, 1, 1, <<"p", "i", "n", "g", "p", "o", "n", "g">>),
      TagJson(<<"b", "a", "c", "k">>, 1, 0, <<"r", "e", "v", "e", "r", "s", "e">>), TagJson(<<"o", "d", "d">>, 0, 1, <<"F", "o", "r", "w", "a", "r", "d">>),
      JObj(<< <<<<"n", "a", "m", "e">>, JStr(<<"o", "b", "j">>)>>, <<<<"f", "r", "o", "m">>, JNum(0)>>, <<<<"t", "o">>, JNum(0)>>,
              <<<<"d", "i", "r", "e", "c", "t", "i", "o", "n">>, JObj(<< <<<<"r", "e", "v", "e", "r", "s", "e">>, JNull>> >>)>> >>) }

LayerInputs ==
    { \* a plain layer, as Aseprite 1.2 writes it
      JObj(<< <<<<"n", "a", "m", "e">>, JStr(<<"L", "1">>)>>, <<<<"o", "p", "a", "c", "i", "t", "y">>, JNum(255)>>,
              <<<<"b", "l", "e", "n", "d", "M", "o", "d", "e">>, JStr(<<"n", "o", "r", "m", "a", "l">>)>> >>),
      \* a group: name only
      JObj(<< <<<<"n", "a", "m", "e">>, JStr(<<"G">>)>> >>),
      \* every field
      JObj(<< <<<<"n", "a", "m", "e">>, JStr(<<"L", "2">>)>>, <<<<"g", "r", "o", "u", "p">>, JStr(<<"G">>)>>,
              <<<<"o", "p", "a", "c", "i", "t", "y">>, JNum(128)>>, <<<<"b", "l", "e", "n", "d", "M", "o", "d", "e">>, JStr(<<"h", "a", "r", "d", "_", "l", "i", "g", "h", "t">>)>>,
              <<<<"c", "o", "l", "o", "r">>, JStr(<<"#", "6", "a", "c", "d", "5", "b", "f", "f">>)>>, <<<<"d", "a", "t", "a">>, JStr(<<"d">>)>> >>),
      \* only one of opacity and blendMode
      JObj(<< <<<<"n", "a", "m", "e">>, JStr(<<"L", "3">>)>>, <<<<"o", "p", "a", "c", "i", "t", "y">>, JNum(0)>> >>),
      JObj(<< <<<<"n", "a", "m", "e">>, JStr(<<"L", "4">>)>>, <<<<"b", "l", "e", "n", "d", "M", "o", "d", "e">>, JStr(<<"h", "s", "l", "_", "h", "u", "e">>)>>,
              <<<<"g", "r", "o", "u", "p">>, JNull>> >>),
      \* colors that are not in canonical form
      JObj(<< <<<<"n", "a", "m", "e">>, JStr(<<"L", "5">>)>>, <<<<"c", "o", "l", "o", "r">>, JStr(<<"#", "F", "F", "+", "a", "0", "0", "C", "d", "z", "z">>)>> >>),
      \* a color that is too short
      JObj(<< <<<<"n", "a", "m", "e">>, JStr(<<"L", "6">>)>>, <<<<"c", "o", "l", "o", "r">>, JStr(<<"#", "6", "a", "c", "d", "5">>)>> >>),
      \* an unknown blend mode
      JObj(<< <<<<"n", "a", "m", "e">>, JStr(<<"L", "7">>)>>, <<<<"b", "l", "e", "n", "d", "M", "o", "d", "e">>, JStr(<<"b", "o", "g", "u", "s">>)>> >>),
      \* a color whose alpha pair is not hexadecimal
      JObj(<< <<<<"n", "a", "m", "e">>, JStr(<<"L", "8">>)>>, <<<<"c", "o", "l", "o", "r">>, JStr(<<"#", "6", "a", "c", "d", "5", "b", "z", "z">>)>> >>) }

SliceKeyJson(frame, pivot, center) ==
    JObj(<< <<<<"f", "r", "a", "m", "e">>, JNum(frame)>>, <<<<"b", "o", "u", "n", "d", "s">>, RectJson(0, 0, 8, 8)>> >> \o pivot \o center)

SliceInputs ==
    { JObj(<< <<<<"n", "a", "m", "e">>, JStr(<<"S", "1">>)>>, <<<<"c", "o", "l", "o", "r">>, JStr(<<"#", "0", "0", "0", "0", "f", "f", "f", "f">>)>>,
              <<<<"k", "e", "y", "s">>, JArr(<< SliceKeyJson(0, <<>>, <<>>) >>)>> >>),
      JObj(<< <<<<"n", "a", "m", "e">>, JStr(<<"S", "2">>)>>, <<<<"c", "o", "l", "o", "r">>, JStr(<<"#", "0", "0", "0", "0", "F", "F", "F", "F">>)>>,
              <<<<"d", "a", "t", "a">>, JStr(<<"d">>)>>,
              <<<<"k", "e", "y", "s">>, JArr(<< SliceKeyJson(0, << <<<<"p", "i", "v", "o", "t">>, JObj(<< <<<<"x">>, JNum(4)>>, <<<<"y">>, JNum(4)>> >>)>> >>,
                                                 << <<<<"c", "e", "n", "t", "e", "r">>, RectJson(1, 1, 6, 6)>> >>),
                                  SliceKeyJson(1, << <<<<"p", "i", "v", "o", "t">>, JNull>> >>, <<>>) >>)>> >>),
      \* no keys: it does not decode
      JObj(<< <<<<"n", "a", "m", "e">>, JStr(<<"S", "3">>)>>, <<<<"c", "o", "l", "o", "r">>, JStr(<<"#", "0", "0", "0", "0", "f", "f", "f", "f">>)>> >>),
      \* the second key has no bounds: it does not decode
      JObj(<< <<<<"n", "a", "m", "e">>, JStr(<<"S", "4">>)>>, <<<<"c", "o", "l", "o", "r">>, JStr(<<"#", "0", "0", "0", "0", "f", "f", "f", "f">>)>>,
              <<<<"k", "e", "y", "s">>, JArr(<< SliceKeyJson(0, <<>>, <<>>), JObj(<< <<<<"f", "r", "a", "m", "e">>, JNum(1)>> >>) >>)>> >>) }

\* The entries every meta object has.
MetaBase ==
    << <<<<"a", "p", "p">>, JStr(<<"a", "s", "e">>)>>, <<<<"v", "e", "r", "s", "i", "o", "n">>, JStr(<<"1", ".", "2">>)>>,
       <<<<"f", "o", "r", "m", "a", "t">>, JStr(<<"I", "8">>)>>, <<<<"s", "i", "z", "e">>, DimensionsJson(39, 20)>>,
       <<<<"s", "c", "a", "l", "e">>, JStr(<<"1">>)>> >>

Absent == <<>>

Present(key, j) == << <<key, j>> >>

ImageInputs == { Absent, Present(<<"i", "m", "a", "g", "e">>, JNull), Present(<<"i", "m", "a", "g", "e">>, JStr(<<"b", ".", "p", "n", "g">>)) }

ListInputs(key, S, n) == { Absent } \cup { Present(key, JArr(xs)) : xs \in SeqsUpTo(S, n) }

\* meta objects: the optional entries vary one at a time, and together.
MetaInputs ==
    { JObj(MetaBase \o image) : image \in ImageInputs }
      \cup { JObj(SubSeq(MetaBase, 1, 4)) }
      \cup { JObj(MetaBase \o tags) : tags \in ListInputs(<<"f", "r", "a", "m", "e", "T", "a", "g", "s">>, TagInputs, MaxTags) }
      \cup { JObj(MetaBase \o layers) : layers \in ListInputs(<<"l", "a", "y", "e", "r", "s">>, LayerInputs, MaxLayers) }
      \cup { JObj(MetaBase \o slices) : slices \in ListInputs(<<"s", "l", "i", "c", "e", "s">>, SliceInputs, MaxSlices) }
      \cup { JObj(image \o MetaBase \o tags \o layers \o slices) :
                image \in ImageInputs,
                tags \in ListInputs(<<"f", "r", "a", "m", "e", "T", "a", "g", "s">>, TagInputs, 1),
                layers \in ListInputs(<<"l", "a", "y", "e", "r", "s">>, { l \in LayerInputs : Len(l.es) = 3 }, 1),
                slices \in ListInputs(<<"s", "l", "i", "c", "e", "s">>, { s \in SliceInputs : Len(s.es) = 3 }, 1) }

\* A meta object with one frame tag, one layer with every field and one
\* slice with two keys, a pivot and a center.
FullMeta ==
    JObj(MetaBase
         \o Present(<<"f", "r", "a", "m", "e", "T", "a", "g", "s">>, JArr(<< TagJson(<<"w", "a", "l", "k">>, 0, 1, <<"f", "o", "r", "w", "a", "r", "d">>) >>))
         \o Present(<<"l", "a", "y", "e", "r", "s">>, JArr(<< CHOOSE l \in LayerInputs : Len(l.es) = 6 >>))
         \o Present(<<"s", "l", "i", "c", "e", "s">>, JArr(<< CHOOSE s \in SliceInputs : Len(s.es) = 4 >>)))

DocJson(frames, meta) == JObj(<< <<<<"f", "r", "a", "m", "e", "s">>, frames>>, <<<<"m", "e", "t", "a">>, meta>> >>)

BasePairs ==
    << <<<<"b", ".", "a", "s", "e">>, FrameEntries(1, FALSE, 250)>>, <<<<"a", ".", "a", "s", "e">>, FrameEntries(20, TRUE, 100)>> >>

\* What a run starts from: the pairs, the shape they are written in and
\* the meta object.
DocInputs ==
    { [shape |-> s, pairs |-> p, meta |-> JObj(MetaBase)] : s \in {"array", "map"}, p \in PairsInputs }
      \cup { [shape |-> s, pairs |-> BasePairs, meta |-> m] : s \in {"array", "map"}, m \in MetaInputs }
      \cup { [shape |-> s, pairs |-> <<>>, meta |-> m] : s \in ScalarShapes, m \in { JObj(MetaBase), FullMeta } }

----------------------------------------------------------------------------
(* Documents with one more entry in one of their objects                   *)

RECURSIVE ObjectPaths(_)
\* The objects of a JSON value: the path to each, as the indexes of the
\* entries and elements passed on the way.
ObjectPaths(j) ==
    IF j.t = "obj"
    THEN { <<>> } \cup UNION { { <<i>> \o p : p \in ObjectPaths(j.es[i][2]) } : i \in 1..Len(j.es) }
    ELSE IF j.t = "arr"
    THEN UNION { { <<i>> \o p : p \in ObjectPaths(j.xs[i]) } : i \in 1..Len(j.xs) }
    ELSE {}

RECURSIVE InsertEntry(_, _, _, _)
\* The value with `entry` put after the first `at` entries of the object at
\* `path`.
InsertEntry(j, path, at, entry) ==
    IF path = <<>>
    THEN JObj(SubSeq(j.es, 1, at) \o <<entry>> \o SubSeq(j.es, at + 1, Len(j.es)))
    ELSE IF j.t = "obj"
    THEN JObj([i \in 1..Len(j.es) |->
                IF i = Head(path)
                THEN <<j.es[i][1], InsertEntry(j.es[i][2], Tail(path), at, entry)>>
                ELSE j.es[i]])
    ELSE JArr([i \in 1..Len(j.xs) |->
                IF i = Head(path) THEN InsertEntry(j.xs[i], Tail(path), at, entry) ELSE j.xs[i]])

RECURSIVE ValueAt(_, _)
ValueAt(j, path) ==
    IF path = <<>> THEN j
    ELSE IF j.t = "obj" THEN ValueAt(j.es[Head(path)][2], Tail(path))
    ELSE ValueAt(j.xs[Head(path)], Tail(path))

\* Keys no struct of the crate has: a new one, and the Rust name of a field
\* whose JSON key is frameTags.
ExtraKeys == { <<"f", "u", "t", "u", "r", "e", "F", "i", "e", "l", "d">>, <<"f", "r", "a", "m", "e", "_", "t", "a", "g", "s">> }

ExtraValues == { JNum(1), JObj(<< <<<<"x">>, JArr(<< JNull >>)>> >>) }

\* The struct objects of a document: every object but a map-shape `frames`,
\* whose keys are filenames.
StructPaths(shape, j) == ObjectPaths(j) \ (IF shape = "map" THEN { <<1>> } ELSE {})

\* One entry to add to a document: the object, the position (first or
\* last), the key and the value.
ExtraInputs(shape, j) ==
    UNION { { [path |-> p, at |-> a, key |-> k, val |-> v] :
                a \in { 0, Len(ValueAt(j, p).es) }, k \in ExtraKeys, v \in ExtraValues } :
            p \in StructPaths(shape, j) }

----------------------------------------------------------------------------
(* Documents that name a blend mode or a direction                         *)

\* Names as the Rust source writes the variants.
PascalCaseTexts ==
    { <<"N", "o", "r", "m", "a", "l">>,
      <<"M", "u", "l", "t", "i", "p", "l", "y">>,
      <<"S", "c", "r", "e", "e", "n">>,
      <<"O", "v", "e", "r", "l", "a", "y">>,
      <<"D", "a", "r", "k", "e", "n">>,
      <<"L", "i", "g", "h", "t", "e", "n">>,
      <<"C", "o", "l", "o", "r", "D", "o", "d", "g", "e">>,
      <<"C", "o", "l", "o", "r", "B", "u", "r", "n">>,
      <<"H", "a", "r", "d", "L", "i", "g", "h", "t">>,
      <<"S", "o", "f", "t", "L", "i", "g", "h", "t">>,
      <<"D", "i", "f", "f", "e", "r", "e", "n", "c", "e">>,
      <<"E", "x", "c", "l", "u", "s", "i", "o", "n">>,
      <<"H", "s", "l", "H", "u", "e">>,
      <<"H", "s", "l", "S", "a", "t", "u", "r", "a", "t", "i", "o", "n">>,
      <<"H", "s", "l", "C", "o", "l", "o", "r">>,
      <<"H", "s", "l", "L", "u", "m", "i", "n", "o", "s", "i", "t", "y">>,
      <<"A", "d", "d", "i", "t", "i", "o", "n">>,
      <<"S", "u", "b", "t", "r", "a", "c", "t">>,
      <<"D", "i", "v", "i", "d", "e">>,
      <<"F", "o", "r", "w", "a", "r", "d">>,
      <<"R", "e", "v", "e", "r", "s", "e">>,
      <<"P", "i", "n", "g", "p", "o", "n", "g">> }

\* Names in camelCase, in capitals, and without the underscore.
OtherCaseTexts ==
    { <<"c", "o", "l", "o", "r", "B", "u", "r", "n">>,
      <<"c", "o", "l", "o", "r", "D", "o", "d", "g", "e">>,
      <<"h", "a", "r", "d", "L", "i", "g", "h", "t">>,
      <<"h", "s", "l", "C", "o", "l", "o", "r">>,
      <<"h", "s", "l", "H", "u", "e">>,
      <<"h", "s", "l", "L", "u", "m", "i", "n", "o", "s", "i", "t", "y">>,
      <<"h", "s", "l", "S", "a", "t", "u", "r", "a", "t", "i", "o", "n">>,
      <<"s", "o", "f", "t", "L", "i", "g", "h", "t">>,
      <<"N", "O", "R", "M", "A", "L">>,
      <<"H", "A", "R", "D", "_", "L", "I", "G", "H", "T">>,
      <<"F", "O", "R", "W", "A", "R", "D">>,
      <<"c", "o", "l", "o", "r", "d", "o", "d", "g", "e">>,
      <<"c", "o", "l", "o", "r", "b", "u", "r", "n">>,
      <<"h", "a", "r", "d", "l", "i", "g", "h", "t">>,
      <<"s", "o", "f", "t", "l", "i", "g", "h", "t">>,
      <<"h", "s", "l", "h", "u", "e">>,
      <<"h", "s", "l", "s", "a", "t", "u", "r", "a", "t", "i", "o", "n">>,
      <<"h", "s", "l", "c", "o", "l", "o", "r">>,
      <<"h", "s", "l", "l", "u", "m", "i", "n", "o", "s", "i", "t", "y">> }

\* Strings that are no name of a variant in any spelling, and the empty
\* string.
NoVariantTexts ==
    { <<"b", "o", "g", "u", "s">>,
      <<"h", "a", "r", "d", "-", "l", "i", "g", "h", "t">>,
      <<"h", "a", "r", "d", "_", "l", "i", "g", "h", "t", "_">>,
      <<"_", "n", "o", "r", "m", "a", "l">>,
      <<"p", "i", "n", "g", "P", "o", "n", "g">>,
      <<"p", "i", "n", "g", "_", "p", "o", "n", "g">>,
      <<"f", "o", "r", "w", "a", "r", "d", "s">>,
      <<"n", "o", "r", "m", "a">>, <<>> }

\* The snake_case names of BlendMode and the lowercase names of Direction.
LowerCaseTexts ==
    { <<"n", "o", "r", "m", "a", "l">>,
      <<"m", "u", "l", "t", "i", "p", "l", "y">>,
      <<"s", "c", "r", "e", "e", "n">>,
      <<"o", "v", "e", "r", "l", "a", "y">>,
      <<"d", "a", "r", "k", "e", "n">>,
      <<"l", "i", "g", "h", "t", "e", "n">>,
      <<"c", "o", "l", "o", "r", "_", "d", "o", "d", "g", "e">>,
      <<"c", "o", "l", "o", "r", "_", "b", "u", "r", "n">>,
      <<"h", "a", "r", "d", "_", "l", "i", "g", "h", "t">>,
      <<"s", "o", "f", "t", "_", "l", "i", "g", "h", "t">>,
      <<"d", "i", "f", "f", "e", "r", "e", "n", "c", "e">>,
      <<"e", "x", "c", "l", "u", "s", "i", "o", "n">>,
      <<"h", "s", "l", "_", "h", "u", "e">>,
      <<"h", "s", "l", "_", "s", "a", "t", "u", "r", "a", "t", "i", "o", "n">>,
      <<"h", "s", "l", "_", "c", "o", "l", "o", "r">>,
      <<"h", "s", "l", "_", "l", "u", "m", "i", "n", "o", "s", "i", "t", "y">>,
      <<"a", "d", "d", "i", "t", "i", "o", "n">>,
      <<"s", "u", "b", "t", "r", "a", "c", "t">>,
      <<"d", "i", "v", "i", "d", "e">>,
      <<"f", "o", "r", "w", "a", "r", "d">>,
      <<"r", "e", "v", "e", "r", "s", "e">>,
      <<"p", "i", "n", "g", "p", "o", "n", "g">> }

EnumTexts == LowerCaseTexts \cup PascalCaseTexts \cup OtherCaseTexts \cup NoVariantTexts

\* A meta object with one layer named E with the blend mode, or one frame
\* tag named E with the direction.
EnumMetaInputs ==
    { JObj(MetaBase \o Present(<<"l", "a", "y", "e", "r", "s">>,
              JArr(<< JObj(<< <<<<"n", "a", "m", "e">>, JStr(<<"E">>)>>, <<<<"b", "l", "e", "n", "d", "M", "o", "d", "e">>, JStr(text)>> >>) >>))) :
        text \in EnumTexts }
      \cup { JObj(MetaBase \o Present(<<"f", "r", "a", "m", "e", "T", "a", "g", "s">>, JArr(<< TagJson(<<"E">>, 0, 1, text) >>))) :
                text \in EnumTexts }

----------------------------------------------------------------------------
(* Documents with a number written in one integer slot                     *)

RECURSIVE ReplaceAt(_, _, _)
\* The value with `val` in the place of the value at `path`.
ReplaceAt(j, path, val) ==
    IF path = <<>> THEN val
    ELSE IF j.t = "obj"
    THEN JObj([i \in 1..Len(j.es) |->
                IF i = Head(path) THEN <<j.es[i][1], ReplaceAt(j.es[i][2], Tail(path), val)>>
                ELSE j.es[i]])
    ELSE JArr([i \in 1..Len(j.xs) |->
                IF i = Head(path) THEN ReplaceAt(j.xs[i], Tail(path), val) ELSE j.xs[i]])

\* Numbers up to u32::MAX, among them 2^16, 2^31 - 1 and 2^31.
NumbersInRange ==
    { <<"0">>, <<"7">>, <<"6", "5", "5", "3", "5">>, <<"6", "5", "5", "3", "6">>, <<"2", "1", "4", "7", "4", "8", "3", "6", "4", "7">>, <<"2", "1", "4", "7", "4", "8", "3", "6", "4", "8">>, <<"4", "2", "9", "4", "9", "6", "7", "2", "9", "5">> }

\* Numbers above u32::MAX: 2^32, 2^32 + 5, u64::MAX and u64::MAX + 1.
NumbersAbove ==
    { <<"4", "2", "9", "4", "9", "6", "7", "2", "9", "6">>, <<"4", "2", "9", "4", "9", "6", "7", "3", "0", "1">>, <<"1", "8", "4", "4", "6", "7", "4", "4", "0", "7", "3", "7", "0", "9", "5", "5", "1", "6", "1", "5">>, <<"1", "8", "4", "4", "6", "7", "4", "4", "0", "7", "3", "7", "0", "9", "5", "5", "1", "6", "1", "6">> }

NumbersNegative == { <<"-", "1">>, <<"-", "0">>, <<"-", "4", "2", "9", "4", "9", "6", "7", "2", "9", "5">>, <<"-", "9", "2", "2", "3", "3", "7", "2", "0", "3", "6", "8", "5", "4", "7", "7", "5", "8", "0", "9">> }

\* Numbers written with a fraction or an exponent.
NumbersFractional == { <<"1", ".", "5">>, <<"0", ".", "5">>, <<"1", ".", "0">>, <<"1", "e", "2">>, <<"-", "2", ".", "5">> }

NumberTexts == NumbersInRange \cup NumbersAbove \cup NumbersNegative \cup NumbersFractional

\* The integer slots of the first frame: where each is in the object of the
\* frame's entries.
FrameSlots ==
    { [name |-> "frame.x", path |-> <<1, 1>>],
      [name |-> "spriteSourceSize.h", path |-> <<4, 4>>],
      [name |-> "sourceSize.w", path |-> <<5, 1>>],
      [name |-> "duration", path |-> <<6>>] }

\* The integer slots of FullMeta: where each is in the meta object.
MetaSlots ==
    { [name |-> "size.h", path |-> <<4, 2>>],
      [name |-> "from", path |-> <<6, 1, 2>>],
      [name |-> "to", path |-> <<6, 1, 3>>],
      [name |-> "opacity", path |-> <<7, 1, 3>>],
      [name |-> "key.frame", path |-> <<8, 1, 4, 1, 1>>],
      [name |-> "bounds.w", path |-> <<8, 1, 4, 1, 2, 3>>],
      [name |-> "pivot.y", path |-> <<8, 1, 4, 1, 3, 2>>],
      [name |-> "center.x", path |-> <<8, 1, 4, 1, 4, 1>>] }

\* The pairs and the meta object with the number in the slot.
NumberInputs ==
    { [shape |-> s,
       pairs |-> [BasePairs EXCEPT ![1][2] = ReplaceAt(JObj(@), slot.path, JNumber(text)).es],
       meta |-> FullMeta, slot |-> slot.name, number |-> text] :
        s \in {"array", "map"}, slot \in FrameSlots, text \in NumberTexts }
      \cup { [shape |-> s, pairs |-> BasePairs,
              meta |-> ReplaceAt(FullMeta, slot.path, JNumber(text)),
              slot |-> slot.name, number |-> text] :
                s \in {"array", "map"}, slot \in MetaSlots, text \in NumberTexts }

----------------------------------------------------------------------------
(* The codec as a state machine: an encode flow (Color -> text -> Color)   *)
(* and a decode flow (text -> Color -> text).                              *)

NoInput == [shape |-> "none", pairs |-> <<>>, meta |-> JNull]

NoExtra == [path |-> <<>>, at |-> 0, key |-> <<>>, val |-> JNull]

DocIdle ==
    /\ input = NoInput
    /\ doc = JNull
    /\ parsed = Pending
    /\ parsedOther = Pending
    /\ saved = JNull
    /\ reparsed = Pending
    /\ extra = NoExtra
    /\ parsedExtra = Pending
    /\ savedOther = JNull

ColorIdle ==
    /\ colorIn = NoColor
    /\ textIn = <<>>
    /\ encoded = Pending
    /\ debugText = <<>>
    /\ decoded = Pending

InitColor ==
    /\ \/ /\ pc = "encode"
          /\ colorIn \in ColorInputs
          /\ textIn = <<>>
       \/ /\ pc = "decode"
          /\ colorIn = NoColor
          /\ textIn \in TextInputs
    /\ encoded = Pending
    /\ debugText = <<>>
    /\ decoded = Pending
    /\ DocIdle

\* serde_json::to_value(&color)
SerializeColor ==
    /\ pc = "encode"
    /\ encoded' = ColorSerialize(colorIn)
    /\ pc' = "debug"
    /\ UNCHANGED <<colorIn, textIn, debugText, decoded, docVars>>

\* format!("{:?}", color)
DebugColor ==
    /\ pc = "debug"
    /\ debugText' = ColorDebug(colorIn)
    /\ pc' = "reload"
    /\ UNCHANGED <<colorIn, textIn, encoded, decoded, docVars>>

\* Color::deserialize of the text just encoded
DeserializeEncoded ==
    /\ pc = "reload"
    /\ decoded' = ColorDeserialize(encoded.v)
    /\ pc' = "encodeDone"
    /\ UNCHANGED <<colorIn, textIn, encoded, debugText, docVars>>

\* Color::deserialize of an input text
DeserializeColor ==
    /\ pc = "decode"
    /\ decoded' = ColorDeserialize(textIn)
    /\ pc' = IF IsOk(decoded') THEN "resave" ELSE "decodeDone"
    /\ UNCHANGED <<colorIn, textIn, encoded, debugText, docVars>>

\* Color::serialize of the Color just decoded
SerializeDecoded ==
    /\ pc = "resave"
    /\ encoded' = ColorSerialize(decoded.v)
    /\ pc' = "decodeDone"
    /\ UNCHANGED <<colorIn, textIn, debugText, decoded, docVars>>

NextColor ==
    \/ SerializeColor
    \/ DebugColor
    \/ DeserializeEncoded
    \/ DeserializeColor
    \/ SerializeDecoded

SpecColor == InitColor /\ [][NextColor]_vars

----------------------------------------------------------------------------
(* Documents as a state machine: the document is decoded, the same frames  *)
(* are decoded in the other shape, the value is encoded and the encoding   *)
(* is decoded again (tests::test_sprite_load_save).                        *)

Init ==
    /\ pc = "parse"
    /\ input \in DocInputs
    /\ doc = DocJson(FramesJson(input.shape, input.pairs), input.meta)
    /\ parsed = Pending
    /\ parsedOther = Pending
    /\ saved = JNull
    /\ reparsed = Pending
    /\ extra = NoExtra
    /\ parsedExtra = Pending
    /\ savedOther = JNull
    /\ ColorIdle

\* serde_json::from_str::<SpritesheetData>(doc)
FromStr ==
    /\ pc = "parse"
    /\ parsed' = DeserializeSpritesheetData(doc)
    /\ pc' = "parseOther"
    /\ UNCHANGED <<input, doc, parsedOther, saved, reparsed, extra, parsedExtra, savedOther, colorVars>>

\* The same frames written in the other shape (array_json / hash_json of
\* tests::test_aseprite_test_data).
FromStrOtherShape ==
    /\ pc = "parseOther"
    /\ parsedOther' = DeserializeSpritesheetData(
                          DocJson(FramesJson(OtherShape(input.shape), input.pairs), input.meta))
    /\ pc' = IF IsOk(parsed) THEN "save" ELSE "done"
    /\ UNCHANGED <<input, doc, parsed, saved, reparsed, extra, parsedExtra, savedOther, colorVars>>

\* serde_json::to_string(&deserialized)
ToJsonString ==
    /\ pc = "save"
    /\ saved' = SerializeSpritesheetData(parsed.v)
    /\ pc' = "saveOther"
    /\ UNCHANGED <<input, doc, parsed, parsedOther, reparsed, extra, parsedExtra, savedOther, colorVars>>

\* serde_json::to_string of the value decoded from the other shape
ToJsonStringOther ==
    /\ pc = "saveOther"
    /\ savedOther' = IF IsOk(parsedOther) THEN SerializeSpritesheetData(parsedOther.v) ELSE JNull
    /\ pc' = "reparse"
    /\ UNCHANGED <<input, doc, parsed, parsedOther, saved, reparsed, extra, parsedExtra, colorVars>>

\* serde_json::from_str(&serialized)
FromStrAgain ==
    /\ pc = "reparse"
    /\ reparsed' = DeserializeSpritesheetData(saved)
    /\ pc' = "done"
    /\ UNCHANGED <<input, doc, parsed, parsedOther, saved, extra, parsedExtra, savedOther, colorVars>>

Next ==
    \/ FromStr
    \/ FromStrOtherShape
    \/ ToJsonString
    \/ ToJsonStringOther
    \/ FromStrAgain

Spec == Init /\ [][Next]_vars

\* A valid document and one entry to add to it.
InitExtra ==
    /\ pc = "parseExtra"
    /\ input \in { [shape |-> s, pairs |-> BasePairs, meta |-> FullMeta] : s \in {"array", "map"} }
    /\ doc = DocJson(FramesJson(input.shape, input.pairs), input.meta)
    /\ extra \in ExtraInputs(input.shape, doc)
    /\ parsed = Pending
    /\ parsedOther = Pending
    /\ saved = JNull
    /\ reparsed = Pending
    /\ parsedExtra = Pending
    /\ savedOther = JNull
    /\ ColorIdle

\* serde_json::from_str::<SpritesheetData> of the document with the entry
\* added
FromStrExtraKey ==
    /\ pc = "parseExtra"
    /\ parsedExtra' = DeserializeSpritesheetData(
                          InsertEntry(doc, extra.path, extra.at, <<extra.key, extra.val>>))
    /\ pc' = "parse"
    /\ UNCHANGED <<input, doc, parsed, parsedOther, saved, reparsed, extra, savedOther, colorVars>>

NextExtra ==
    \/ FromStrExtraKey
    \/ Next

SpecExtra == InitExtra /\ [][NextExtra]_vars

\* A document that names one blend mode or one direction.
InitEnum ==
    /\ pc = "parse"
    /\ input \in { [shape |-> s, pairs |-> BasePairs, meta |-> m] :
                      s \in {"array", "map"}, m \in EnumMetaInputs }
    /\ doc = DocJson(FramesJson(input.shape, input.pairs), input.meta)
    /\ parsed = Pending
    /\ parsedOther = Pending
    /\ saved = JNull
    /\ reparsed = Pending
    /\ extra = NoExtra
    /\ parsedExtra = Pending
    /\ savedOther = JNull
    /\ ColorIdle

SpecEnum == InitEnum /\ [][Next]_vars

\* A document with a number written in one of its integer slots.
InitNumber ==
    /\ pc = "parse"
    /\ input \in NumberInputs
    /\ doc = DocJson(FramesJson(input.shape, input.pairs), input.meta)
    /\ parsed = Pending
    /\ parsedOther = Pending
    /\ saved = JNull
    /\ reparsed = Pending
    /\ extra = NoExtra
    /\ parsedExtra = Pending
    /\ savedOther = JNull
    /\ ColorIdle

SpecNumber == InitNumber /\ [][Next]_vars

----------------------------------------------------------------------------
(* Properties of the Color codec                                           *)

InEncodeFlow == pc \in {"encode", "debug", "reload", "encodeDone"}

DecodeFlowDecoded == pc \in {"resave", "decodeDone"}

\* The Color whose encoding `encoded` holds.
EncodedFrom == IF InEncodeFlow THEN colorIn ELSE decoded.v

HasEncoded == pc \in {"debug", "reload", "encodeDone"} \/ (pc = "decodeDone" /\ IsOk(decoded))

IsLowerHexPairOf(s, k, byte) ==
    \E hi \in 0..15, lo \in 0..15 :
        /\ s[k] = LowerHexDigits[hi + 1]
        /\ s[k + 1] = LowerHexDigits[lo + 1]
        /\ 16 * hi + lo = byte

IsHexDigit(ch) ==
    ch \in { LowerHexDigits[i] : i \in 1..16 } \cup { UpperHexDigits[i] : i \in 1..16 }

HexValue(ch) ==
    IF \E i \in 1..16 : LowerHexDigits[i] = ch
    THEN (CHOOSE i \in 1..16 : LowerHexDigits[i] = ch) - 1
    ELSE (CHOOSE i \in 1..16 : UpperHexDigits[i] = ch) - 1

\* C2: every text that starts with '#' and is not exactly 9 characters long
\* is rejected with the wrong-length error.
C2_WrongLengthRejected ==
    (DecodeFlowDecoded /\ StartsWith(textIn, "#") /\ Len(textIn) # 9)
        => decoded = Err("color has wrong length")

\* C3: Color decode never aborts: every input ends in a Color or in an
\* error returned to the caller.
C3_DecodeNeverPanics ==
    (DecodeFlowDecoded \/ pc = "encodeDone") => decoded.kind \in {"ok", "err"}

\* C4: decode(encode(c)) succeeds and equals c for every Color c, and no
\* other Color has the same encoding.
C4_ColorRoundTrip ==
    pc = "encodeDone" =>
        /\ decoded = Ok(colorIn)
        /\ \A r \in SampleBytes, g \in SampleBytes, b \in SampleBytes, a \in SampleBytes :
              ColorSerialize(Color(r, g, b, a)) = encoded => Color(r, g, b, a) = colorIn

C4_Witness ==
    /\ pc = "encodeDone"
    /\ colorIn = Color(106, 205, 91, 255)
    /\ decoded = Ok(colorIn)

\* C5: every text that decode accepts is the encoding of the Color it
\* decodes to: encode(decode(s)) = s.
C5_AcceptedIsCanonical ==
    (pc = "decodeDone" /\ IsOk(decoded)) => encoded = Ok(textIn)

\* C6: encode always succeeds with '#' followed by r, g, b, a as two
\* zero-padded lowercase hex digits each, 9 characters in all, and the
\* Debug text is the same text.
C6_EncodeCanonical ==
    /\ HasEncoded =>
          /\ IsOk(encoded)
          /\ Len(encoded.v) = 9
          /\ encoded.v[1] = "#"
          /\ IsLowerHexPairOf(encoded.v, 2, EncodedFrom.r)
          /\ IsLowerHexPairOf(encoded.v, 4, EncodedFrom.g)
          /\ IsLowerHexPairOf(encoded.v, 6, EncodedFrom.b)
          /\ IsLowerHexPairOf(encoded.v, 8, EncodedFrom.a)
          /\ (EncodedFrom = Color(106, 205, 91, 255)
                => encoded.v = <<"#", "6", "a", "c", "d", "5", "b", "f", "f">>)
          /\ (EncodedFrom = Color(0, 0, 0, 0)
                => encoded.v = <<"#", "0", "0", "0", "0", "0", "0", "0", "0">>)
    /\ pc \in {"reload", "encodeDone"} => debugText = encoded.v

C6_Witness ==
    /\ pc = "encodeDone"
    /\ colorIn = Color(0, 10, 106, 255)
    /\ encoded = Ok(<<"#", "0", "0", "0", "a", "6", "a", "f", "f">>)
    /\ debugText = encoded.v

\* The channel messages in R, G, B, A order.
ChannelErrors ==
    << "color has non-hex red component", "color has non-hex green component",
       "color has non-hex blue component", "color has non-hex alpha component" >>

PairIsHex(s, k) == IsHexDigit(s[2 * k]) /\ IsHexDigit(s[2 * k + 1])

PairValue(s, k) == 16 * HexValue(s[2 * k]) + HexValue(s[2 * k + 1])

\* C7: a 9-character text starting with '#' decodes to the four bytes its
\* pairs spell, or fails naming the first pair that is not two hex digits.
C7_PairsParsedInOrder ==
    (DecodeFlowDecoded /\ StartsWith(textIn, "#") /\ Len(textIn) = 9) =>
        IF \E k \in 1..4 : ~PairIsHex(textIn, k)
        THEN decoded = Err(ChannelErrors[CHOOSE k \in 1..4 :
                              ~PairIsHex(textIn, k) /\ \A j \in 1..(k - 1) : PairIsHex(textIn, j)])
        ELSE decoded = Ok(Color(PairValue(textIn, 1), PairValue(textIn, 2),
                                PairValue(textIn, 3), PairValue(textIn, 4)))

----------------------------------------------------------------------------
(* Properties of documents                                                 *)

BothParsed == pc \in {"save", "saveOther", "reparse", "done"}

\* The value of the first entry with the given key.
EntryValue(es, key) == es[Min({ i \in 1..Len(es) : es[i][1] = key })][2]

\* The input's frames all hold the FrameData fields, and its meta decodes.
FramesWellFormed ==
    /\ input.shape \in {"array", "map"}
    /\ \A i \in 1..Len(input.pairs) : input.pairs[i][2] \in ValidFrameEntries

MetaWellFormed == IsOk(DeserializeMetadata(input.meta))

DistinctFilenames ==
    \A i \in 1..Len(input.pairs), k \in 1..Len(input.pairs) :
        input.pairs[i][1] = input.pairs[k][1] => i = k

\* C1: a value that decode produced encodes to a document that decodes to
\* the same value.
C1_RoundTrip == (pc = "done" /\ IsOk(parsed)) => reparsed = Ok(parsed.v)

C1_Witness ==
    /\ pc = "done"
    /\ input.shape = "map"
    /\ IsOk(parsed)
    /\ Len(parsed.v.frames) = 2
    /\ saved # doc
    /\ reparsed = parsed

C1_WitnessMeta ==
    /\ pc = "done"
    /\ IsOk(parsed)
    /\ Len(parsed.v.meta.layers) = 2
    /\ \E i \in 1..2 : parsed.v.meta.layers[i].color = Some(Color(255, 10, 0, 205))
    /\ reparsed = parsed

\* C8: pairs with distinct filenames decode, written as an array and
\* written as an object, to the same set of frames, one frame per pair.
C8_ShapeEquivalence ==
    (BothParsed /\ FramesWellFormed /\ MetaWellFormed /\ DistinctFilenames) =>
        /\ IsOk(parsed)
        /\ IsOk(parsedOther)
        /\ Range(parsed.v.frames) = Range(parsedOther.v.frames)
        /\ Len(parsed.v.frames) = Len(input.pairs)
        /\ Len(parsedOther.v.frames) = Len(input.pairs)

C8_Witness ==
    /\ BothParsed
    /\ DistinctFilenames
    /\ Len(input.pairs) = 2
    /\ input.pairs[1][2] = FrameEntriesReordered
    /\ IsOk(parsed)
    /\ IsOk(parsedOther)
    /\ Cardinality(Range(parsed.v.frames)) = 2
    /\ Range(parsed.v.frames) = Range(parsedOther.v.frames)

\* Frame i of a decoded sequence is pair i of the input.
FrameIsPair(frame, pair) ==
    /\ frame.filename = pair[1]
    /\ FormatU32(frame.data.duration) = EntryValue(pair[2], <<"d", "u", "r", "a", "t", "i", "o", "n">>).text
    /\ frame.data.trimmed = EntryValue(pair[2], <<"t", "r", "i", "m", "m", "e", "d">>).b
    /\ FormatU32(frame.data.frame.x) = EntryValue(EntryValue(pair[2], <<"f", "r", "a", "m", "e">>).es, <<"x">>).text

\* C9: in both shapes output frame i is the decoding of input element i,
\* so the two shapes give the same sequence.
C9_OrderPreserved ==
    (BothParsed /\ FramesWellFormed /\ MetaWellFormed) =>
        /\ IsOk(parsed)
        /\ IsOk(parsedOther)
        /\ Len(parsed.v.frames) = Len(input.pairs)
        /\ Len(parsedOther.v.frames) = Len(input.pairs)
        /\ \A i \in 1..Len(input.pairs) :
              /\ FrameIsPair(parsed.v.frames[i], input.pairs[i])
              /\ FrameIsPair(parsedOther.v.frames[i], input.pairs[i])
        /\ parsed.v.frames = parsedOther.v.frames

C9_Witness ==
    /\ BothParsed
    /\ input.shape = "map"
    /\ Len(input.pairs) = 2
    /\ input.pairs[1][1] = <<"b", ".", "a", "s", "e">>
    /\ input.pairs[2][1] = <<"a", ".", "a", "s", "e">>
    /\ input.pairs[1][2] # input.pairs[2][2]
    /\ IsOk(parsed)
    /\ parsed.v.frames[1].filename = <<"b", ".", "a", "s", "e">>
    /\ parsed.v.frames[2].filename = <<"a", ".", "a", "s", "e">>
    /\ parsed.v.frames = parsedOther.v.frames

\* The Metadata of a meta object that holds MetaBase and no list element.
DefaultMeta ==
    [ app |-> <<"a", "s", "e">>, version |-> <<"1", ".", "2">>, format |-> <<"I", "8">>,
      size |-> [w |-> U32(39), h |-> U32(20)], scale |-> <<"1">>, image |-> None,
      frame_tags |-> <<>>, layers |-> <<>>, slices |-> <<>> ]

ListKeys == { <<"f", "r", "a", "m", "e", "T", "a", "g", "s">>, <<"l", "a", "y", "e", "r", "s">>, <<"s", "l", "i", "c", "e", "s">> }

\* C10: a meta object with only app, version, format, size and scale
\* decodes with the three lists empty and image None, and so does one
\* where a list key is present with an empty array.
C10_Defaulting ==
    ( /\ pc # "parse"
      /\ FramesWellFormed
      /\ input.meta \in { JObj(MetaBase) }
                          \cup { JObj(MetaBase \o Present(k, JArr(<<>>))) : k \in ListKeys } )
        => (IsOk(parsed) /\ parsed.v.meta = DefaultMeta)

C10_Witness ==
    /\ pc = "done"
    /\ input.meta = JObj(MetaBase)
    /\ IsOk(parsed)
    /\ parsed.v.meta.frame_tags = <<>>
    /\ parsed.v.meta.layers = <<>>
    /\ parsed.v.meta.slices = <<>>
    /\ parsed.v.meta.image = None

C10_WitnessEmptyArray ==
    /\ pc = "done"
    /\ input.meta = JObj(MetaBase \o Present(<<"l", "a", "y", "e", "r", "s">>, JArr(<<>>)))
    /\ IsOk(parsed)
    /\ parsed.v.meta = DefaultMeta

\* C11: an entry with an unknown key added to any struct object of a valid
\* document leaves the decoded value as it is without the entry.
C11_ExtraKeysIgnored ==
    (pc \notin {"parseExtra", "parse"} /\ extra # NoExtra /\ IsOk(parsed)) => parsedExtra = parsed

\* The entry was put first in an array-shape frame object, before filename.
C11_Witness ==
    /\ pc = "done"
    /\ input.shape = "array"
    /\ extra.path = <<1, 2>>
    /\ extra.at = 0
    /\ extra.key = <<"f", "r", "a", "m", "e", "_", "t", "a", "g", "s">>
    /\ IsOk(parsed)
    /\ Len(parsed.v.frames) = 2
    /\ Len(parsed.v.meta.slices) = 1
    /\ parsedExtra = parsed

\* The entry was put last in the center Rect of a slice key.
C11_WitnessNested ==
    /\ pc = "done"
    /\ input.shape = "map"
    /\ Len(extra.path) = 6
    /\ ValueAt(doc, extra.path) = RectJson(1, 1, 6, 6)
    /\ extra.at = 4
    /\ IsOk(parsed)
    /\ parsedExtra = parsed

\* The keys of an encoded frame, in the order they are written.
EncodedFrameKeys ==
    << <<"f", "i", "l", "e", "n", "a", "m", "e">>, <<"f", "r", "a", "m", "e">>, <<"r", "o", "t", "a", "t", "e", "d">>, <<"t", "r", "i", "m", "m", "e", "d">>, <<"s", "p", "r", "i", "t", "e", "S", "o", "u", "r", "c", "e", "S", "i", "z", "e">>, <<"s", "o", "u", "r", "c", "e", "S", "i", "z", "e">>,
       <<"d", "u", "r", "a", "t", "i", "o", "n">> >>

\* The JSON a u32, a Rect and a Dimensions of the model are written as.
NumberOf(v) == JNumber(FormatU32(v))

RectOf(r) ==
    JObj(<< <<<<"x">>, NumberOf(r.x)>>, <<<<"y">>, NumberOf(r.y)>>, <<<<"w">>, NumberOf(r.w)>>,
            <<<<"h">>, NumberOf(r.h)>> >>)

DimensionsOf(d) == JObj(<< <<<<"w">>, NumberOf(d.w)>>, <<<<"h">>, NumberOf(d.h)>> >>)

\* The JSON object is the encoding of the frame: filename and the fields of
\* FrameData at one level.
IsEncodedFrame(j, frame) ==
    /\ j.t = "obj"
    /\ [k \in 1..Len(j.es) |-> j.es[k][1]] = EncodedFrameKeys
    /\ j.es[1][2] = JStr(frame.filename)
    /\ j.es[2][2] = RectOf(frame.data.frame)
    /\ j.es[3][2] = JBool(frame.data.rotated)
    /\ j.es[4][2] = JBool(frame.data.trimmed)
    /\ j.es[5][2] = RectOf(frame.data.sprite_source_size)
    /\ j.es[6][2] = DimensionsOf(frame.data.source_size)
    /\ j.es[7][2] = NumberOf(frame.data.duration)

\* C12: `frames` is written as an array with one object per frame in model
\* order, filename beside the FrameData fields, whatever shape the value was
\* decoded from; equal values are written as equal documents.
C12_CanonicalFrames ==
    (pc \in {"reparse", "done"} /\ IsOk(parsed)) =>
        LET frames == EntryValue(saved.es, <<"f", "r", "a", "m", "e", "s">>)
        IN  /\ frames.t = "arr"
            /\ Len(frames.xs) = Len(parsed.v.frames)
            /\ \A i \in 1..Len(frames.xs) : IsEncodedFrame(frames.xs[i], parsed.v.frames[i])
            /\ (parsedOther = parsed => savedOther = saved)

C12_Witness ==
    /\ pc = "done"
    /\ input.shape = "map"
    /\ doc.es[1][2].t = "obj"
    /\ IsOk(parsed)
    /\ Len(parsed.v.frames) = 2
    /\ parsed.v.frames[1].filename # parsed.v.frames[2].filename
    /\ saved.es[1][2].t = "arr"
    /\ Len(saved.es[1][2].xs) = 2
    /\ parsedOther = parsed
    /\ savedOther = saved

\* The value of an entry of the input's meta object that is a list, or the
\* empty list when there is no such entry.
MetaList(key) ==
    IF \E i \in 1..Len(input.meta.es) : input.meta.es[i][1] = key
    THEN EntryValue(input.meta.es, key).xs
    ELSE <<>>

ElementName(j) == EntryValue(j.es, <<"n", "a", "m", "e">>).s

\* The list elements of the inputs that hold a field that cannot be decoded
\* and is reported: a direction or blend mode that is no variant, a color
\* pair that is not hexadecimal, a slice without keys, a slice key without
\* bounds.
ReportedNames == { <<"o", "d", "d">>, <<"L", "7">>, <<"L", "8">>, <<"S", "3">>, <<"S", "4">> }

\* The layers whose color is not 9 characters long.
WrongLengthNames == { <<"L", "5">>, <<"L", "6">> }

HasElementNamed(names) ==
    \E key \in ListKeys : \E i \in 1..Len(MetaList(key)) : ElementName(MetaList(key)[i]) \in names

HasFailingFrame == \E i \in 1..Len(input.pairs) : input.pairs[i][2] = FrameEntriesNoDuration

MetaLacksScale == \A i \in 1..Len(input.meta.es) : input.meta.es[i][1] # <<"s", "c", "a", "l", "e">>

\* C13: when a field of the document cannot be decoded, the whole decode
\* returns an error.
C13_AllOrNothing ==
    ( /\ pc # "parse"
      /\ \/ HasFailingFrame
         \/ MetaLacksScale
         \/ HasElementNamed(ReportedNames \cup WrongLengthNames) )
        => IsErr(parsed)

\* The part of C13 that the code keeps: a failure that is reported ends the
\* decode with an error, wherever it is, and a failure of any kind never
\* leaves a value.
C13_ReportedFailuresPropagate ==
    /\ (pc # "parse" /\ (HasFailingFrame \/ MetaLacksScale \/ HasElementNamed(ReportedNames)))
          => ~IsOk(parsed)
    /\ ( /\ pc # "parse"
         /\ (HasFailingFrame \/ MetaLacksScale \/ HasElementNamed(ReportedNames))
         /\ ~HasElementNamed(WrongLengthNames) )
          => IsErr(parsed)
    /\ (pc # "parse" /\ HasElementNamed({ <<"L", "6">> })) => ~IsOk(parsed)

HasKey(j, key) == \E i \in 1..Len(j.es) : j.es[i][1] = key

\* The layers of the inputs that hold nothing that fails to decode: with
\* both of opacity and blendMode, with neither, with one of them.
PlainLayerNames == { <<"L", "1">>, <<"G">>, <<"L", "2">>, <<"L", "3">>, <<"L", "4">> }

\* The variant a blend mode of the input layers names.
BlendModeNamed(s) ==
    CASE s = <<"n", "o", "r", "m", "a", "l">> -> "Normal"
      [] s = <<"h", "a", "r", "d", "_", "l", "i", "g", "h", "t">> -> "HardLight"
      [] s = <<"h", "s", "l", "_", "h", "u", "e">> -> "HslHue"

\* The opacity the input layers are written with.
OpacityWritten(j) ==
    CASE EntryValue(j.es, <<"o", "p", "a", "c", "i", "t", "y">>) = JNumber(<<"2", "5", "5">>) -> 255
      [] EntryValue(j.es, <<"o", "p", "a", "c", "i", "t", "y">>) = JNumber(<<"1", "2", "8">>) -> 128
      [] EntryValue(j.es, <<"o", "p", "a", "c", "i", "t", "y">>) = JNumber(<<"0">>) -> 0

\* The decoded layer has opacity and blend_mode exactly as far as the JSON
\* layer has the keys.
LayerFieldsAsWritten(j, layer) ==
    /\ layer.opacity = IF HasKey(j, <<"o", "p", "a", "c", "i", "t", "y">>)
                       THEN Some(U32(OpacityWritten(j))) ELSE None
    /\ layer.blend_mode = IF HasKey(j, <<"b", "l", "e", "n", "d", "M", "o", "d", "e">>)
                          THEN Some(BlendModeNamed(EntryValue(j.es, <<"b", "l", "e", "n", "d", "M", "o", "d", "e">>).s)) ELSE None

\* C14: a layer decodes with opacity and blend_mode each Some exactly when
\* its key is written, in all four combinations.
C14_LayerFieldsIndependent ==
    ( /\ pc # "parse"
      /\ FramesWellFormed
      /\ HasKey(input.meta, <<"l", "a", "y", "e", "r", "s">>)
      /\ Len(input.meta.es) = Len(MetaBase) + 1
      /\ \A i \in 1..Len(MetaList(<<"l", "a", "y", "e", "r", "s">>)) :
            ElementName(MetaList(<<"l", "a", "y", "e", "r", "s">>)[i]) \in PlainLayerNames )
        => /\ IsOk(parsed)
           /\ Len(parsed.v.meta.layers) = Len(MetaList(<<"l", "a", "y", "e", "r", "s">>))
           /\ \A i \in 1..Len(MetaList(<<"l", "a", "y", "e", "r", "s">>)) :
                 LayerFieldsAsWritten(MetaList(<<"l", "a", "y", "e", "r", "s">>)[i], parsed.v.meta.layers[i])

\* One layer with opacity only and one with blendMode only.
C14_Witness ==
    /\ pc = "done"
    /\ Len(MetaList(<<"l", "a", "y", "e", "r", "s">>)) = 2
    /\ ElementName(MetaList(<<"l", "a", "y", "e", "r", "s">>)[1]) = <<"L", "3">>
    /\ ElementName(MetaList(<<"l", "a", "y", "e", "r", "s">>)[2]) = <<"L", "4">>
    /\ IsOk(parsed)
    /\ parsed.v.meta.layers[1].opacity = Some(U32(0))
    /\ parsed.v.meta.layers[1].blend_mode = None
    /\ parsed.v.meta.layers[2].opacity = None
    /\ parsed.v.meta.layers[2].blend_mode = Some("HslHue")

\* One layer with both and one with neither.
C14_WitnessBothNeither ==
    /\ pc = "done"
    /\ Len(MetaList(<<"l", "a", "y", "e", "r", "s">>)) = 2
    /\ ElementName(MetaList(<<"l", "a", "y", "e", "r", "s">>)[1]) = <<"L", "1">>
    /\ ElementName(MetaList(<<"l", "a", "y", "e", "r", "s">>)[2]) = <<"G">>
    /\ IsOk(parsed)
    /\ parsed.v.meta.layers[1].opacity = Some(U32(255))
    /\ parsed.v.meta.layers[1].blend_mode = Some("Normal")
    /\ parsed.v.meta.layers[2].opacity = None
    /\ parsed.v.meta.layers[2].blend_mode = None

\* The names of the BlendMode variants.
BlendModeNames ==
    { <<<<"n", "o", "r", "m", "a", "l">>, "Normal">>,
      <<<<"m", "u", "l", "t", "i", "p", "l", "y">>, "Multiply">>,
      <<<<"s", "c", "r", "e", "e", "n">>, "Screen">>,
      <<<<"o", "v", "e", "r", "l", "a", "y">>, "Overlay">>,
      <<<<"d", "a", "r", "k", "e", "n">>, "Darken">>,
      <<<<"l", "i", "g", "h", "t", "e", "n">>, "Lighten">>,
      <<<<"c", "o", "l", "o", "r", "_", "d", "o", "d", "g", "e">>, "ColorDodge">>,
      <<<<"c", "o", "l", "o", "r", "_", "b", "u", "r", "n">>, "ColorBurn">>,
      <<<<"h", "a", "r", "d", "_", "l", "i", "g", "h", "t">>, "HardLight">>,
      <<<<"s", "o", "f", "t", "_", "l", "i", "g", "h", "t">>, "SoftLight">>,
      <<<<"d", "i", "f", "f", "e", "r", "e", "n", "c", "e">>, "Difference">>,
      <<<<"e", "x", "c", "l", "u", "s", "i", "o", "n">>, "Exclusion">>,
      <<<<"h", "s", "l", "_", "h", "u", "e">>, "HslHue">>,
      <<<<"h", "s", "l", "_", "s", "a", "t", "u", "r", "a", "t", "i", "o", "n">>, "HslSaturation">>,
      <<<<"h", "s", "l", "_", "c", "o", "l", "o", "r">>, "HslColor">>,
      <<<<"h", "s", "l", "_", "l", "u", "m", "i", "n", "o", "s", "i", "t", "y">>, "HslLuminosity">>,
      <<<<"a", "d", "d", "i", "t", "i", "o", "n">>, "Addition">>,
      <<<<"s", "u", "b", "t", "r", "a", "c", "t">>, "Subtract">>,
      <<<<"d", "i", "v", "i", "d", "e">>, "Divide">> }

\* The names of the Direction variants.
DirectionNames ==
    { <<<<"f", "o", "r", "w", "a", "r", "d">>, "Forward">>,
      <<<<"r", "e", "v", "e", "r", "s", "e">>, "Reverse">>,
      <<<<"p", "i", "n", "g", "p", "o", "n", "g">>, "Pingpong">> }

OneToOne(names) == \A p \in names, q \in names : (p[1] = q[1]) <=> (p[2] = q[2])

\* The blend mode that the input's layer E names, and the direction that
\* the input's frame tag E names.
BlendModeText == EntryValue(MetaList(<<"l", "a", "y", "e", "r", "s">>)[1].es, <<"b", "l", "e", "n", "d", "M", "o", "d", "e">>).s

DirectionText == EntryValue(MetaList(<<"f", "r", "a", "m", "e", "T", "a", "g", "s">>)[1].es, <<"d", "i", "r", "e", "c", "t", "i", "o", "n">>).s

\* The first element of a list of the written meta object.
SavedElement(key) == EntryValue(EntryValue(saved.es, <<"m", "e", "t", "a">>).es, key).xs[1]

\* C15: the 19 snake_case names of BlendMode and the 3 lowercase names of
\* Direction decode to their variants and the variants encode to them, one
\* name per variant; every other string is rejected as an unknown variant.
C15_EnumNames ==
    /\ Cardinality(BlendModeNames) = 19
    /\ Cardinality(DirectionNames) = 3
    /\ OneToOne(BlendModeNames)
    /\ OneToOne(DirectionNames)
    /\ (pc # "parse" /\ HasKey(input.meta, <<"l", "a", "y", "e", "r", "s">>)) =>
          IF \E p \in BlendModeNames : p[1] = BlendModeText
          THEN /\ IsOk(parsed)
               /\ parsed.v.meta.layers[1].blend_mode
                     = Some((CHOOSE p \in BlendModeNames : p[1] = BlendModeText)[2])
               /\ pc \in {"saveOther", "reparse", "done"} =>
                     EntryValue(SavedElement(<<"l", "a", "y", "e", "r", "s">>).es, <<"b", "l", "e", "n", "d", "M", "o", "d", "e">>) = JStr(BlendModeText)
          ELSE parsed = Err("unknown variant")
    /\ (pc # "parse" /\ HasKey(input.meta, <<"f", "r", "a", "m", "e", "T", "a", "g", "s">>)) =>
          IF \E p \in DirectionNames : p[1] = DirectionText
          THEN /\ IsOk(parsed)
               /\ parsed.v.meta.frame_tags[1].direction
                     = (CHOOSE p \in DirectionNames : p[1] = DirectionText)[2]
               /\ pc \in {"saveOther", "reparse", "done"} =>
                     EntryValue(SavedElement(<<"f", "r", "a", "m", "e", "T", "a", "g", "s">>).es, <<"d", "i", "r", "e", "c", "t", "i", "o", "n">>) = JStr(DirectionText)
          ELSE parsed = Err("unknown variant")

C15_Witness ==
    /\ pc = "done"
    /\ HasKey(input.meta, <<"l", "a", "y", "e", "r", "s">>)
    /\ BlendModeText = <<"h", "s", "l", "_", "l", "u", "m", "i", "n", "o", "s", "i", "t", "y">>
    /\ IsOk(parsed)
    /\ parsed.v.meta.layers[1].blend_mode = Some("HslLuminosity")
    /\ EntryValue(SavedElement(<<"l", "a", "y", "e", "r", "s">>).es, <<"b", "l", "e", "n", "d", "M", "o", "d", "e">>) = JStr(<<"h", "s", "l", "_", "l", "u", "m", "i", "n", "o", "s", "i", "t", "y">>)
    /\ reparsed = parsed

C15_WitnessDirection ==
    /\ pc = "done"
    /\ HasKey(input.meta, <<"f", "r", "a", "m", "e", "T", "a", "g", "s">>)
    /\ DirectionText = <<"p", "i", "n", "g", "p", "o", "n", "g">>
    /\ IsOk(parsed)
    /\ parsed.v.meta.frame_tags[1].direction = "Pingpong"
    /\ EntryValue(SavedElement(<<"f", "r", "a", "m", "e", "T", "a", "g", "s">>).es, <<"d", "i", "r", "e", "c", "t", "i", "o", "n">>) = JStr(<<"p", "i", "n", "g", "p", "o", "n", "g">>)

C15_WitnessRejected ==
    /\ pc = "done"
    /\ HasKey(input.meta, <<"l", "a", "y", "e", "r", "s">>)
    /\ BlendModeText = <<"H", "a", "r", "d", "L", "i", "g", "h", "t">>
    /\ parsed = Err("unknown variant")

\* The value the document binds to `frames`.
FramesValue == EntryValue(doc.es, <<"f", "r", "a", "m", "e", "s">>)

\* C16: `frames` bound to null, a boolean, a number or a string ends the
\* decode with an error; an empty array and an empty object give no frames.
C16_FramesShape ==
    /\ (pc # "parse" /\ FramesValue.t \notin {"arr", "obj"}) => parsed = Err("invalid type")
    /\ (pc # "parse" /\ FramesValue \in { JArr(<<>>), JObj(<<>>) } /\ MetaWellFormed) =>
          (IsOk(parsed) /\ parsed.v.frames = <<>>)

C16_Witness ==
    /\ pc = "done"
    /\ FramesValue = JStr(<<"a", ".", "a", "s", "e">>)
    /\ Len(input.meta.es) > Len(MetaBase)
    /\ parsed = Err("invalid type")

C16_WitnessEmpty ==
    /\ pc = "done"
    /\ FramesValue = JObj(<<>>)
    /\ IsOk(parsed)
    /\ parsed.v.frames = <<>>
    /\ reparsed = parsed

\* The decoded field of a slot.
SlotValue(slot, v) ==
    CASE slot = "frame.x" -> v.frames[1].data.frame.x
      [] slot = "spriteSourceSize.h" -> v.frames[1].data.sprite_source_size.h
      [] slot = "sourceSize.w" -> v.frames[1].data.source_size.w
      [] slot = "duration" -> v.frames[1].data.duration
      [] slot = "size.h" -> v.meta.size.h
      [] slot = "from" -> v.meta.frame_tags[1].from
      [] slot = "to" -> v.meta.frame_tags[1].to
      [] slot = "opacity" -> v.meta.layers[1].opacity.v
      [] slot = "key.frame" -> v.meta.slices[1].keys[1].frame
      [] slot = "bounds.w" -> v.meta.slices[1].keys[1].bounds.w
      [] slot = "pivot.y" -> v.meta.slices[1].keys[1].pivot.v.y
      [] slot = "center.x" -> v.meta.slices[1].keys[1].center.v.x

IsNegativeNumber(text) == Head(text) = "-"

IsFractionalNumber(text) == \E i \in 1..Len(text) : text[i] \in {".", "e", "E"}

U32MaxText == <<"4", "2", "9", "4", "9", "6", "7", "2", "9", "5">>

\* The digits are a number above 2^32 - 1.
IsAboveU32Max(digits) ==
    \/ Len(digits) > Len(U32MaxText)
    \/ /\ Len(digits) = Len(U32MaxText)
       /\ \E i \in 1..Len(digits) :
             /\ DigitValue(digits[i]) > DigitValue(U32MaxText[i])
             /\ \A k \in 1..(i - 1) : digits[k] = U32MaxText[k]

\* C17: a number that is negative, fractional or above 2^32 - 1 in an
\* integer slot ends the decode with an error; any other number is the
\* decoded field, digit for digit.
C17_U32Checked ==
    (pc # "parse") =>
        IF \/ IsNegativeNumber(input.number)
           \/ IsFractionalNumber(input.number)
           \/ IsAboveU32Max(input.number)
        THEN IsErr(parsed) /\ parsed.msg \in {"invalid type", "invalid value"}
        ELSE /\ IsOk(parsed)
             /\ FormatU32(SlotValue(input.slot, parsed.v)) = input.number
             /\ SlotValue(input.slot, parsed.v).hi \in 0..(LimbBase - 1)
             /\ SlotValue(input.slot, parsed.v).lo \in 0..(LimbBase - 1)

\* u32::MAX in a Rect of a frame written in the array shape.
C17_Witness ==
    /\ pc = "done"
    /\ input.shape = "array"
    /\ input.slot = "frame.x"
    /\ input.number = U32MaxText
    /\ IsOk(parsed)
    /\ parsed.v.frames[1].data.frame.x = [hi |-> 65535, lo |-> 65535]
    /\ reparsed = parsed

\* 2^32 + 5 as the opacity of a layer.
C17_WitnessAbove ==
    /\ pc = "done"
    /\ input.slot = "opacity"
    /\ input.number = <<"4", "2", "9", "4", "9", "6", "7", "3", "0", "1">>
    /\ parsed = Err("invalid value")

\* 2^31 as the frame of a slice key.
C17_WitnessHalf ==
    /\ pc = "done"
    /\ input.slot = "key.frame"
    /\ input.number = <<"2", "1", "4", "7", "4", "8", "3", "6", "4", "8">>
    /\ IsOk(parsed)
    /\ parsed.v.meta.slices[1].keys[1].frame = [hi |-> 32768, lo |-> 0]

====
